---- MODULE Spec2Model ----
(***************************************************************************)
(* A model of EnhancedRecommendationEngine.generate_fresh_recommendations  *)
(* (src/src/enhanced_recommendation_engine.py): the per-customer           *)
(* recommendation history, the freshness filter, the slot arithmetic, the  *)
(* backfill loop, the record construction and the history write/prune.     *)
(*                                                                         *)
(* The helper methods the function calls (_get_wings_r_us_recommendations, *)
(* _ensure_category_diversity, _get_wings_r_us_trending_items,             *)
(* _get_wings_r_us_seasonal_items, _get_wings_r_us_fallback_items,         *)
(* _get_wings_r_us_category) are not defined in the source tree; they are  *)
(* modelled from the written specification (section 4.4) over a small      *)
(* catalogue.  Everything else is translated from the function body.       *)
(*                                                                         *)
(* Time is counted in ticks; TicksPerDay ticks make one day, so that ages  *)
(* between whole days (7 days 12 hours) exist.                             *)
(***************************************************************************)
EXTENDS Integers, Sequences, FiniteSets, TLC

VARIABLES
    recommendation_history, \* self.recommendation_history: customer -> <<item, ts>> list
    now,                    \* the last value read from the clock (datetime.now())
    calls,                  \* number of calls made so far (bounded)
    call,                   \* the inputs, intermediate lists and result of the last call
    prev,                   \* summary of the call before the last one
    configured,             \* 0: platform_configs as constructed; n > 0: every
                            \* platform's max_recommendations set to n
    threads,                \* concurrent callers: position and locals of each
    data,                   \* the cleaned order table: one row of item names per order
    features,               \* what FeatureEngineer.create_features returned
    recommender,            \* RecommendationEngine: self.features and self.trained
    predictions,            \* outcome of the last RecommendationEngine.predict
    measured,               \* the last measure_success_metrics call: arguments and report
    pilot_config,           \* WingsRUsPilotFramework.pilot_config
    health_status           \* the last monitor_pilot_health call: argument and result

vars == <<recommendation_history, now, calls, call, prev, configured, threads,
          data, features, recommender, predictions,
          measured, pilot_config, health_status>>

\* the state of the success measurement and of the pilot framework
pilot_vars == <<measured, pilot_config, health_status>>

\* the state of the batch pipeline (main.py)
pipeline_vars == <<data, features, recommender, predictions>>

\* the state of the enhanced engine
engine_vars == <<recommendation_history, now, calls, call, prev, configured, threads>>

----------------------------------------------------------------------------
(* Bounds of the model *)

MaxCalls == 3

TicksPerDay == 2

\* largest overriding target count, and calls made under an override
MaxTarget == 10

MaxConfiguredCalls == 2

\* most negative overriding target count is -MaxInvalid
MaxInvalid == 3

\* most orders in the order table
MaxOrders == 7

(* Program constants *)

history_window_days == 7

retention_days == 30

----------------------------------------------------------------------------
(* Generic sequence helpers (Python list semantics) *)

SeqToSet(s) == {s[i] : i \in 1..Len(s)}

Min2(a, b) == IF a <= b THEN a ELSE b

Max2(a, b) == IF a >= b THEN a ELSE b

\* Python s[:n], including the negative-n case (all but the last -n items)
Take(s, n) ==
    IF n >= 0 THEN SubSeq(s, 1, Min2(n, Len(s)))
              ELSE SubSeq(s, 1, Max2(0, Len(s) + n))

\* [x for x in s if x not in excl]
Without(s, excl) == SelectSeq(s, LAMBDA x : x \notin SeqToSet(excl))

NoDup(s) == \A i, j \in 1..Len(s) : i # j => s[i] # s[j]

----------------------------------------------------------------------------
(* The catalogue the helpers work on *)

Customers == {"c1", "c2"}

\* the requests made of the engine: customer, cart, customer type, platform
\* (an app request, a web request and a kiosk request)
Requests ==
    { [customer_id |-> "c1", current_items |-> <<"Wings">>,
       customer_type |-> "Registered", platform |-> "Digital"],
      [customer_id |-> "c1", current_items |-> <<"Salad">>,
       customer_type |-> "Guest", platform |-> "Web"],
      [customer_id |-> "c2", current_items |-> <<"Wings">>,
       customer_type |-> "Guest", platform |-> "Kiosk"] }

\* gaps between two clock readings: one tick, 7 days and a tick, 15 days, 30 days
Gaps == {1, history_window_days * TicksPerDay + 1,
         (retention_days * TicksPerDay) \div 2, retention_days * TicksPerDay}

CategoryTable ==
    [x \in {"RanchDip", "BleuDip", "Fries", "Soda", "Cookie", "Coleslaw",
            "HoneyBBQ", "SpicySandwich", "HolidayWings", "Wings", "Salad"} |->
        CASE x \in {"RanchDip", "BleuDip"} -> "dips_sauces"
          [] x = "Fries" -> "fries"
          [] x = "Soda" -> "drinks"
          [] x = "Cookie" -> "desserts"
          [] x = "Coleslaw" -> "sides"
          [] x \in {"HoneyBBQ", "HolidayWings", "Wings"} -> "wings"
          [] x = "SpicySandwich" -> "subs"
          [] OTHER -> "other"]

Items == DOMAIN CategoryTable

\* ranked base candidates (descending blended score) per cart
BaseTable(current_items) ==
    IF "Wings" \in SeqToSet(current_items)
    THEN <<"RanchDip", "BleuDip", "Fries", "Soda", "Cookie", "Coleslaw">>
    ELSE <<"Soda">>

TrendingTable == <<"HoneyBBQ", "SpicySandwich">>

\* month -> seasonal items (the first month has none)
SeasonalTable == <<  <<>>, <<"Cookie", "HolidayWings">>  >>

FallbackTable == <<"HoneyBBQ", "Fries">>

\* month of a clock reading: months of retention_days days, two of them modelled
MonthOf(t) == ((t \div (retention_days * TicksPerDay)) % 2) + 1

----------------------------------------------------------------------------
(* Helper methods called by generate_fresh_recommendations *)

get_wings_r_us_category(item) == CategoryTable[item]

get_wings_r_us_recommendations(current_items) ==
    Without(BaseTable(current_items), current_items)

\* categories of a list in order of first appearance
RECURSIVE CatOrder(_)
CatOrder(s) ==
    IF s = <<>> THEN <<>>
    ELSE LET c == get_wings_r_us_category(Head(s))
         IN <<c>> \o CatOrder(SelectSeq(Tail(s),
                        LAMBDA x : get_wings_r_us_category(x) # c))

OfCategory(s, c) == SelectSeq(s, LAMBDA x : get_wings_r_us_category(x) = c)

\* the r-th best item of every category that has one, in category order
RECURSIVE RoundOf(_, _, _)
RoundOf(s, cats, r) ==
    IF cats = <<>> THEN <<>>
    ELSE LET mine == OfCategory(s, Head(cats))
         IN (IF Len(mine) >= r THEN <<mine[r]>> ELSE <<>>)
            \o RoundOf(s, Tail(cats), r)

RECURSIVE RoundRobin(_, _)
RoundRobin(s, r) ==
    IF r > Len(s) THEN <<>>
    ELSE RoundOf(s, CatOrder(s), r) \o RoundRobin(s, r + 1)

\* the top of the ranked list taken as it is, no round-robin over categories
ensure_category_diversity_ranked(fresh_recs, current_items, max_recs) ==
    Take(fresh_recs, Max2(max_recs, 0))

ensure_category_diversity(fresh_recs, current_items, max_recs) ==
    Take(RoundRobin(fresh_recs, 1), Max2(max_recs, 0))

get_wings_r_us_trending_items(exclude) == Without(TrendingTable, exclude)

get_wings_r_us_seasonal_items(exclude, t) ==
    Without(SeasonalTable[MonthOf(t)], exclude)

get_wings_r_us_fallback_items(exclude) == Without(FallbackTable, exclude)

----------------------------------------------------------------------------
(* generate_fresh_recommendations, step by step *)

platform_configs ==
    [app     |-> [max_recommendations |-> 3],
     website |-> [max_recommendations |-> 5],
     kiosk   |-> [max_recommendations |-> 3]]

PlatformKey(platform) == IF platform = "Digital" THEN "app" ELSE "kiosk"

MaxRecs(platform) ==
    IF configured = 0
    THEN platform_configs[PlatformKey(platform)].max_recommendations
    ELSE configured

\* one history list read for every customer: that of whichever key exists
HistoryOfAnyCustomer(h, customer_id) ==
    IF DOMAIN h = {} THEN <<>> ELSE h[CHOOSE k \in DOMAIN h : TRUE]

\* self.recommendation_history.get(customer_id, [])
HistoryOf(h, customer_id) ==
    IF customer_id \in DOMAIN h THEN h[customer_id] ELSE <<>>

\* (datetime.now() - timestamp).days: whole days, rounded down
DaysBetween(t, timestamp) == (t - timestamp) \div TicksPerDay

IsRecent(t, timestamp) == DaysBetween(t, timestamp) <= history_window_days

\* [item for item, timestamp in history if ...]
RecentRecommendations(history, t) ==
    LET keep == SelectSeq(history, LAMBDA e : IsRecent(t, e[2]))
    IN [i \in 1..Len(keep) |-> keep[i][1]]

\* the freshness filter left out
FreshRecsUnfiltered(base_recs, recent_recommendations) == base_recs

FreshRecs(base_recs, recent_recommendations) ==
    Without(base_recs, recent_recommendations)

\* max(1, int(max_recs * 0.2))
TrendingCount(max_recs) == Max2(1, (max_recs * 2) \div 10)

\* max(1, int(max_recs * 0.1))
SeasonalCount(max_recs) == Max2(1, max_recs \div 10)

\* the seasonal slots not subtracted
BaseCountNoSeasonal(max_recs) == max_recs - TrendingCount(max_recs)

BaseCount(max_recs) == max_recs - TrendingCount(max_recs) - SeasonalCount(max_recs)

TopTrending == 10

\* all injective sequences of length k over the elements of pop
Arrangements(pop, k) ==
    { [i \in 1..k |-> pop[f[i]]] :
        f \in { g \in [1..k -> 1..Len(pop)] :
                  \A i, j \in 1..k : i # j => g[i] # g[j] } }

\* the possible results of random.sample(trending_items[:10], min(count, len))
TrendingSamples(trending_items, count) ==
    IF trending_items = <<>> THEN { <<>> }
    ELSE Arrangements(Take(trending_items, Min2(TopTrending, Len(trending_items))),
                      Min2(count, Len(trending_items)))

\* final_recs.extend(category_recommendations[:base_count])
BasePart(category_recommendations, max_recs) ==
    Take(category_recommendations, BaseCount(max_recs))

\* final_recs.extend(seasonal_items[:seasonal_count])
SeasonalPart(seasonal_items, max_recs) ==
    Take(seasonal_items, SeasonalCount(max_recs))

\* final_recs before the backfill loop
Combine(category_recommendations, trending_sample, seasonal_items, max_recs) ==
    BasePart(category_recommendations, max_recs)
      \o trending_sample
      \o SeasonalPart(seasonal_items, max_recs)

\* the loop excluding the cart only, not what is already in final_recs
BackfillStepCartOnly(final_recs, current_items, max_recs) ==
    IF Len(final_recs) < max_recs
    THEN LET fallback_items == get_wings_r_us_fallback_items(current_items)
         IN IF fallback_items # <<>>
            THEN <<Append(final_recs, fallback_items[1]), TRUE>>
            ELSE <<final_recs, FALSE>>
    ELSE <<final_recs, FALSE>>

\* the loop excluding what is already in final_recs only, not the cart
BackfillStepChosenOnly(final_recs, current_items, max_recs) ==
    IF Len(final_recs) < max_recs
    THEN LET fallback_items == get_wings_r_us_fallback_items(final_recs)
         IN IF fallback_items # <<>>
            THEN <<Append(final_recs, fallback_items[1]), TRUE>>
            ELSE <<final_recs, FALSE>>
    ELSE <<final_recs, FALSE>>

\* one iteration of the while loop: <<list after it, whether the loop goes on>>
BackfillStep(final_recs, current_items, max_recs) ==
    IF Len(final_recs) < max_recs
    THEN LET fallback_items == get_wings_r_us_fallback_items(final_recs \o current_items)
         IN IF fallback_items # <<>>
            THEN <<Append(final_recs, fallback_items[1]), TRUE>>
            ELSE <<final_recs, FALSE>>
    ELSE <<final_recs, FALSE>>

\* the loop run to its end: <<final list, number of times the body ran>>
RECURSIVE BackfillFrom(_, _, _, _)
BackfillFrom(final_recs, current_items, max_recs, iterations) ==
    LET step == BackfillStep(final_recs, current_items, max_recs)
    IN IF step[2]
       THEN BackfillFrom(step[1], current_items, max_recs, iterations + 1)
       ELSE <<step[1],
              IF Len(final_recs) < max_recs THEN iterations + 1 ELSE iterations>>

Backfill(final_recs, current_items, max_recs) ==
    BackfillFrom(final_recs, current_items, max_recs, 0)

RecType(item, trending_items, seasonal_items) ==
    IF item \in SeqToSet(trending_items) THEN "trending"
    ELSE IF item \in SeqToSet(seasonal_items) THEN "seasonal"
    ELSE "personalized"

\* rank given to the record built from position i (1-based) of final_recs
RankOf(i) == i

\* the records built from all of final_recs
ReturnedAll(final_recs, max_recs) == final_recs

\* how many items of final_recs become records: final_recs[:max_recs]
Returned(final_recs, max_recs) == Take(final_recs, max_recs)

Recommendations(final_recs, max_recs, trending_items, seasonal_items, platform, customer_type) ==
    LET out == Returned(final_recs, max_recs)
    IN [i \in 1..Len(out) |->
          [item_name |-> out[i],
           rank |-> RankOf(i),
           recommendation_type |-> RecType(out[i], trending_items, seasonal_items),
           platform |-> platform,
           customer_type |-> customer_type,
           metadata |-> [category |-> get_wings_r_us_category(out[i]),
                         is_trending |-> out[i] \in SeqToSet(trending_items),
                         is_seasonal |-> out[i] \in SeqToSet(seasonal_items)]]]

\* for rec in recommendations: history.append((rec['item_name'], timestamp))
AppendHistory(history, recommendations, timestamp) ==
    history \o [i \in 1..Len(recommendations) |->
                  <<recommendations[i].item_name, timestamp>>]

\* the cutoff compared with >= instead of >
RetainedInclusive(t, ts) == ts >= t - retention_days * TicksPerDay

\* ts > datetime.now() - timedelta(days=30)
Retained(t, ts) == ts > t - retention_days * TicksPerDay

\* the prune done with the 7-day freshness test
PruneWindow(history, t) == SelectSeq(history, LAMBDA e : IsRecent(t, e[2]))

Prune(history, t) == SelectSeq(history, LAMBDA e : Retained(t, e[2]))

\* the mapping with customer_id's list replaced (the key is created if absent)
Store(h, customer_id, history) ==
    [k \in DOMAIN h \cup {customer_id} |->
        IF k = customer_id THEN history ELSE h[k]]

----------------------------------------------------------------------------
(* The call as a whole *)

NoCall ==
    [returned |-> FALSE, customer_id |-> "", current_items |-> <<>>,
     platform |-> "", customer_type |-> "", t |-> 0, max_recs |-> 0,
     prior |-> <<>>, recent_recommendations |-> <<>>, base_recs |-> <<>>,
     fresh_recs |-> <<>>, category_recommendations |-> <<>>,
     trending_items |-> <<>>, trending_sample |-> <<>>,
     seasonal_items |-> <<>>, base_part |-> <<>>, seasonal_part |-> <<>>,
     combined |-> <<>>, final_recs |-> <<>>, origin |-> <<>>,
     iterations |-> 0, recommendations |-> <<>>, streak |-> 0]

NoPrev == [returned |-> FALSE, customer_id |-> "", current_items |-> <<>>,
           t |-> 0, items |-> <<>>]

ItemNames(recommendations) ==
    [i \in 1..Len(recommendations) |-> recommendations[i].item_name]

\* the body of generate_fresh_recommendations for a given target count, clock
\* reading t and outcome of the trending draw; the record of everything computed
Compute(h, customer_id, current_items, customer_type, platform, max_recs, t, draw) ==
    LET history == HistoryOf(h, customer_id)
        recent_recommendations == RecentRecommendations(history, t)
        base_recs == get_wings_r_us_recommendations(current_items)
        fresh_recs == FreshRecs(base_recs, recent_recommendations)
        category_recommendations ==
            ensure_category_diversity(fresh_recs, current_items, max_recs)
        trending_items ==
            get_wings_r_us_trending_items(current_items \o category_recommendations)
        seasonal_items ==
            get_wings_r_us_seasonal_items(
                current_items \o category_recommendations \o trending_items, t)
        base_part == BasePart(category_recommendations, max_recs)
        seasonal_part == SeasonalPart(seasonal_items, max_recs)
        combined == Combine(category_recommendations, draw, seasonal_items, max_recs)
        filled == Backfill(combined, current_items, max_recs)
        \* which statement put each position of final_recs there
        origin == [i \in 1..Len(filled[1]) |->
                     IF i <= Len(base_part) THEN "pool"
                     ELSE IF i <= Len(base_part) + Len(draw) THEN "draw"
                     ELSE IF i <= Len(combined) THEN "seasonal"
                     ELSE "backfill"]
        recommendations ==
            Recommendations(filled[1], max_recs, trending_items, seasonal_items,
                            platform, customer_type)
    IN [returned |-> TRUE, customer_id |-> customer_id,
        current_items |-> current_items, platform |-> platform,
        customer_type |-> customer_type, t |-> t, max_recs |-> max_recs,
        prior |-> history, recent_recommendations |-> recent_recommendations,
        base_recs |-> base_recs, fresh_recs |-> fresh_recs,
        category_recommendations |-> category_recommendations,
        trending_items |-> trending_items, trending_sample |-> draw,
        seasonal_items |-> seasonal_items, base_part |-> base_part,
        seasonal_part |-> seasonal_part, combined |-> combined,
        final_recs |-> filled[1], origin |-> origin, iterations |-> filled[2],
        recommendations |-> recommendations, streak |-> 0]

\* the trending lists the draw of a call is made from
DrawsFor(h, customer_id, current_items, max_recs, t) ==
    LET fresh_recs == FreshRecs(get_wings_r_us_recommendations(current_items),
                                RecentRecommendations(HistoryOf(h, customer_id), t))
        category_recommendations ==
            ensure_category_diversity(fresh_recs, current_items, max_recs)
    IN TrendingSamples(
           get_wings_r_us_trending_items(current_items \o category_recommendations),
           TrendingCount(max_recs))

\* the history after the call: append every returned item, then prune
WriteHistory(h, customer_id, recommendations, t) ==
    LET appended == AppendHistory(HistoryOf(h, customer_id), recommendations, t)
    IN Store(h, customer_id, Prune(appended, t))

\* same customer and cart as the previous call, which lies within the
\* freshness window
InARow(c, p) ==
    /\ p.returned
    /\ p.customer_id = c.customer_id
    /\ p.current_items = c.current_items
    /\ c.t - p.t <= history_window_days * TicksPerDay

\* how many such calls in a row, each with at least 4 fresh candidates
Streak(c, last) ==
    IF Len(c.fresh_recs) < 4 THEN 0
    ELSE IF InARow(c, last) /\ last.streak > 0 THEN last.streak + 1
    ELSE 1

ThreadIds == {"t1", "t2"}

NoFeatures == [created |-> FALSE]

NoPredictions == [outcome |-> "none"]

\* main.py before its first step; RecommendationEngine.__init__
PipelineInit ==
    /\ data = <<>>
    /\ features = NoFeatures
    /\ recommender = [features |-> NoFeatures, trained |-> FALSE]
    /\ predictions = NoPredictions

NoMeasurement == [done |-> FALSE]

NoHealthStatus == [monitored |-> FALSE]

\* WingsRUsPilotFramework.__init__: self.pilot_config = {}
PilotInit ==
    /\ measured = NoMeasurement
    /\ pilot_config = [rollback_triggers |-> <<>>, success_criteria |-> <<>>]
    /\ health_status = NoHealthStatus

IdleThread == [pc |-> "idle", customer_id |-> "", t |-> 0,
               recommendations |-> <<>>, k |-> 0, kept |-> <<>>]

Init ==
    /\ recommendation_history = <<>>
    /\ now = 0
    /\ calls = 0
    /\ call = NoCall
    /\ prev = NoPrev
    /\ configured = 0
    /\ threads = [th \in ThreadIds |-> IdleThread]
    /\ PipelineInit
    /\ PilotInit

GenerateFreshRecommendations(customer_id, current_items, customer_type, platform, t) ==
    /\ calls < (IF configured = 0 THEN MaxCalls ELSE MaxConfiguredCalls)
    /\ LET max_recs == MaxRecs(platform)
       IN \E draw \in DrawsFor(recommendation_history, customer_id,
                               current_items, max_recs, t) :
            LET c == Compute(recommendation_history, customer_id, current_items,
                             customer_type, platform, max_recs, t, draw)
            IN /\ call' = [c EXCEPT !.streak = Streak(c, call)]
               /\ recommendation_history' =
                      WriteHistory(recommendation_history, customer_id,
                                   c.recommendations, t)
    /\ prev' = [returned |-> call.returned, customer_id |-> call.customer_id,
                current_items |-> call.current_items, t |-> call.t,
                items |-> ItemNames(call.recommendations)]
    /\ now' = t
    /\ calls' = calls + 1
    /\ UNCHANGED <<configured, threads>>
    /\ UNCHANGED <<pipeline_vars, pilot_vars>>

Next ==
    \E r \in Requests, gap \in Gaps :
        GenerateFreshRecommendations(r.customer_id, r.current_items,
                                     r.customer_type, r.platform, now + gap)

Spec == Init /\ [][Next]_vars

----------------------------------------------------------------------------
(* The engine with platform_configs overridden: every target count 1..MaxTarget *)

InitConfigured ==
    /\ recommendation_history = <<>>
    /\ now = 0
    /\ calls = 0
    /\ call = NoCall
    /\ prev = NoPrev
    /\ configured \in 1..MaxTarget
    /\ threads = [th \in ThreadIds |-> IdleThread]
    /\ PipelineInit
    /\ PilotInit

SpecConfigured == InitConfigured /\ [][Next]_vars

\* the engine with every max_recommendations set to a negative number
InitInvalid ==
    /\ recommendation_history = <<>>
    /\ now = 0
    /\ calls = 0
    /\ call = NoCall
    /\ prev = NoPrev
    /\ configured \in { -n : n \in 1..MaxInvalid }
    /\ threads = [th \in ThreadIds |-> IdleThread]
    /\ PipelineInit
    /\ PilotInit

SpecInvalid == InitInvalid /\ [][Next]_vars

----------------------------------------------------------------------------
(* The engine called with carts that hold items the helpers would offer *)

\* carts holding base candidates, trending, seasonal and fallback items
CartRequests ==
    { [customer_id |-> "c1", current_items |-> <<"Wings", "RanchDip", "Cookie", "Fries">>,
       customer_type |-> "Registered", platform |-> "Digital"],
      [customer_id |-> "c1", current_items |-> <<"HoneyBBQ", "Fries">>,
       customer_type |-> "Guest", platform |-> "Web"],
      [customer_id |-> "c2",
       current_items |-> <<"Wings", "SpicySandwich", "HolidayWings", "Soda">>,
       customer_type |-> "Guest", platform |-> "Kiosk"] }

NextCarts ==
    \E r \in CartRequests, gap \in Gaps :
        GenerateFreshRecommendations(r.customer_id, r.current_items,
                                     r.customer_type, r.platform, now + gap)

SpecCarts == InitConfigured /\ [][NextCarts]_vars

----------------------------------------------------------------------------
(* Two callers running generate_fresh_recommendations on one engine at once.
   The function takes no lock; each step below is one access to the shared
   mapping, and the steps of the two callers interleave freely. *)

\* lines 309-408: read the history, compute the records, read the timestamp
Begin(th, r, gap) ==
    /\ threads[th].pc = "idle"
    /\ LET t == now + gap
           max_recs == MaxRecs(r.platform)
       IN \E draw \in DrawsFor(recommendation_history, r.customer_id,
                               r.current_items, max_recs, t) :
            LET c == Compute(recommendation_history, r.customer_id,
                             r.current_items, r.customer_type, r.platform,
                             max_recs, t, draw)
            IN /\ threads' = [threads EXCEPT ![th] =
                     [pc |-> "append", customer_id |-> r.customer_id, t |-> t,
                      recommendations |-> c.recommendations, k |-> 1,
                      kept |-> <<>>]]
               /\ now' = t
    /\ UNCHANGED <<recommendation_history, calls, call, prev, configured>>
    /\ UNCHANGED <<pipeline_vars, pilot_vars>>

\* line 410, once per record: self.recommendation_history[customer_id].append(..)
AppendOne(th) ==
    LET me == threads[th]
    IN /\ me.pc = "append"
       /\ me.k <= Len(me.recommendations)
       /\ recommendation_history' =
              Store(recommendation_history, me.customer_id,
                    Append(HistoryOf(recommendation_history, me.customer_id),
                           <<me.recommendations[me.k].item_name, me.t>>))
       /\ threads' = [threads EXCEPT ![th].k = me.k + 1]
       /\ UNCHANGED <<now, calls, call, prev, configured>>
       /\ UNCHANGED <<pipeline_vars, pilot_vars>>

\* lines 413-417, right-hand side: the filtered copy of the current list
PruneRead(th) ==
    LET me == threads[th]
    IN /\ me.pc = "append"
       /\ me.k > Len(me.recommendations)
       /\ recommendation_history' =
              Store(recommendation_history, me.customer_id,
                    HistoryOf(recommendation_history, me.customer_id))
       /\ threads' = [threads EXCEPT ![th].pc = "store",
                        ![th].kept = Prune(HistoryOf(recommendation_history,
                                                     me.customer_id), me.t)]
       /\ UNCHANGED <<now, calls, call, prev, configured>>
       /\ UNCHANGED <<pipeline_vars, pilot_vars>>

\* line 414, the assignment: the mapping's entry is replaced by the copy
PruneStore(th) ==
    LET me == threads[th]
    IN /\ me.pc = "store"
       /\ recommendation_history' =
              Store(recommendation_history, me.customer_id, me.kept)
       /\ threads' = [threads EXCEPT ![th].pc = "done"]
       /\ UNCHANGED <<now, calls, call, prev, configured>>
       /\ UNCHANGED <<pipeline_vars, pilot_vars>>

NextThreads ==
    \E th \in ThreadIds :
        \/ \E r \in Requests, gap \in {0, 1} : Begin(th, r, gap)
        \/ AppendOne(th)
        \/ PruneRead(th)
        \/ PruneStore(th)

SpecThreads == Init /\ [][NextThreads]_vars

----------------------------------------------------------------------------
(* Exact ratios <<numerator, denominator>>, denominator positive, in lowest
   terms.  The program holds these quantities as floats. *)

RECURSIVE GCD(_, _)
GCD(a, b) == IF b = 0 THEN a ELSE GCD(b, a % b)

Frac(n, d) == IF n = 0 THEN <<0, 1>> ELSE <<n \div GCD(n, d), d \div GCD(n, d)>>

FAdd(x, y) ==
    LET l == (x[2] \div GCD(x[2], y[2])) * y[2]
    IN Frac(x[1] * (l \div x[2]) + y[1] * (l \div y[2]), l)

FMul(x, y) == Frac(x[1] * y[1], x[2] * y[2])

\* x / y for y > 0
FDiv(x, y) == Frac(x[1] * y[2], x[2] * y[1])

\* x < y, by whole parts and then the reciprocals of the remainders
RECURSIVE FLess(_, _)
FLess(x, y) ==
    LET qx == x[1] \div x[2]
        qy == y[1] \div y[2]
        rx == x[1] % x[2]
        ry == y[1] % y[2]
    IN IF qx # qy THEN qx < qy
       ELSE IF ry = 0 THEN FALSE
       ELSE IF rx = 0 THEN TRUE
       ELSE FLess(<<y[2], ry>>, <<x[2], rx>>)

FLeq(x, y) == ~FLess(y, x)

(* Python dicts as lists of <<key, value>> in insertion order *)

Keys(d) == [i \in 1..Len(d) |-> d[i][1]]

HasKey(d, k) == \E i \in 1..Len(d) : d[i][1] = k

\* d.get(k, default)
Get(d, k, default) ==
    IF HasKey(d, k) THEN d[CHOOSE i \in 1..Len(d) : d[i][1] = k][2] ELSE default

\* d[k] += v on a defaultdict(float); d[k] = d.get(k, 0) + v on a dict
DictAdd(d, k, v) ==
    IF HasKey(d, k)
    THEN [i \in 1..Len(d) |-> IF d[i][1] = k THEN <<k, FAdd(d[i][2], v)>> ELSE d[i]]
    ELSE Append(d, <<k, v>>)

\* DictAdd for every <<key, value>> of events, in order
RECURSIVE Accumulate(_, _)
Accumulate(d, events) ==
    IF events = <<>> THEN d
    ELSE Accumulate(DictAdd(d, Head(events)[1], Head(events)[2]), Tail(events))

\* x put into a list sorted by descending value, after the entries not below it
RECURSIVE InsertDesc(_, _)
InsertDesc(sorted, x) ==
    IF sorted = <<>> THEN <<x>>
    ELSE IF FLess(Head(sorted)[2], x[2]) THEN <<x>> \o sorted
    ELSE <<Head(sorted)>> \o InsertDesc(Tail(sorted), x)

\* sorted(s, key=lambda x: x[1], reverse=True): stable
RECURSIVE SortedDesc(_)
SortedDesc(s) ==
    IF s = <<>> THEN <<>>
    ELSE InsertDesc(SortedDesc(SubSeq(s, 1, Len(s) - 1)), s[Len(s)])

\* the distinct elements of s in order of first appearance
RECURSIVE FirstSeen(_)
FirstSeen(s) ==
    IF s = <<>> THEN <<>>
    ELSE <<Head(s)>> \o FirstSeen(SelectSeq(Tail(s), LAMBDA x : x # Head(s)))

RECURSIVE Flatten(_)
Flatten(ss) == IF ss = <<>> THEN <<>> ELSE Head(ss) \o Flatten(Tail(ss))

Count(s, x) == Cardinality({i \in 1..Len(s) : s[i] = x})

----------------------------------------------------------------------------
(* The order table the batch pipeline works on *)

Menu == {"Traditional Wings", "Ranch Dip", "Fries", "Soda", "Cookie"}

\* further item names, met in the sparse tables only
MoreNames ==
    {"Buffalo Fries", "Chicken Sub", "SPICY Chicken Sandwich", "Steak Sub",
     "Chocolate Cake", "Napkins", "Wing Combo"}

Catalogue == Menu \cup MoreNames

\* the rows an order table is made of: the item cells of one order, left to
\* right (an order may list an item twice)
OrderRows ==
    << <<"Traditional Wings">>,
       <<"Traditional Wings", "Cookie">>,
       <<"Cookie">>,
       <<"Soda", "Fries", "Ranch Dip">>,
       <<"Traditional Wings", "Traditional Wings", "Fries">>,
       <<"Fries", "Soda">> >>

\* iteration orders of a set of strings (hash order differs between processes)
HashOrders ==
    { <<"Traditional Wings", "Ranch Dip", "Fries", "Soda", "Cookie",
        "Buffalo Fries", "Chicken Sub", "SPICY Chicken Sandwich", "Steak Sub",
        "Chocolate Cake", "Napkins", "Wing Combo">>,
      <<"Wing Combo", "Napkins", "Chocolate Cake", "Steak Sub", "SPICY Chicken Sandwich",
        "Chicken Sub", "Buffalo Fries",
        "Cookie", "Soda", "Fries", "Ranch Dip", "Traditional Wings">> }

\* list(set(items)) / for item in a_set
SetOrder(S, order) == SelectSeq(order, LAMBDA x : x \in S)

----------------------------------------------------------------------------
(* Feature engineering: feature_engineering_v2.py (used by main.py) *)

\* the values of column item<c>, NaN cells dropped
ColumnItems(test_df, c) ==
    LET rows == SelectSeq(test_df, LAMBDA r : Len(r) >= c)
    IN [i \in 1..Len(rows) |-> rows[i][c]]

\* all_items: the three item columns one after the other
AllItems(test_df) ==
    ColumnItems(test_df, 1) \o ColumnItems(test_df, 2) \o ColumnItems(test_df, 3)

\* the denominator taken to be the number of orders
item_frequency_per_order(test_df) ==
    LET all_items == AllItems(test_df)
        names == FirstSeen(all_items)
    IN [i \in 1..Len(names) |->
          <<names[i], Frac(Count(all_items, names[i]), Len(test_df))>>]

calculate_item_frequency_from_test(test_df) ==
    LET all_items == AllItems(test_df)
        names == FirstSeen(all_items)
    IN [i \in 1..Len(names) |->
          <<names[i], Frac(Count(all_items, names[i]), Len(all_items))>>]

\* for i, item1 in enumerate(items): for j, item2 in enumerate(items): if i != j
PairsOf(items) ==
    LET n == Len(items)
        row(i) == LET js == SelectSeq([j \in 1..n |-> j], LAMBDA j : j # i)
                  IN [k \in 1..Len(js) |-> <<items[i], items[js[k]]>>]
    IN Flatten([i \in 1..n |-> row(i)])

\* the counting loop over the item lists of the orders: the nested dict of
\* counts and total_pairs
CooccurrenceCounts(order_lists) ==
    LET pairs == Flatten([o \in 1..Len(order_lists) |-> PairsOf(order_lists[o])])
        outer == FirstSeen([i \in 1..Len(pairs) |-> pairs[i][1]])
        inner(a) == LET mine == SelectSeq(pairs, LAMBDA p : p[1] = a)
                    IN FirstSeen([i \in 1..Len(mine) |-> mine[i][2]])
    IN [cooccurrence |->
          [i \in 1..Len(outer) |->
             <<outer[i],
               [j \in 1..Len(inner(outer[i])) |->
                  <<inner(outer[i])[j],
                    Count(pairs, <<outer[i], inner(outer[i])[j]>>)>>]>>],
        total_pairs |-> Len(pairs)]

\* the conversion to probabilities: count / total_pairs
CooccurrenceOf(order_lists) ==
    LET c == CooccurrenceCounts(order_lists)
    IN [i \in 1..Len(c.cooccurrence) |->
          <<c.cooccurrence[i][1],
            [j \in 1..Len(c.cooccurrence[i][2]) |->
               <<c.cooccurrence[i][2][j][1],
                 Frac(c.cooccurrence[i][2][j][2], c.total_pairs)>>]>>]

calculate_item_cooccurrence_from_test(test_df) == CooccurrenceOf(test_df)

\* rules[item_a].append((item_b, confidence)) for every <<a, b, confidence>> of
\* events whose confidence exceeds 0.1
RulesOf(events) ==
    LET kept == SelectSeq(events, LAMBDA e : FLess(<<1, 10>>, e[3]))
        outer == FirstSeen([i \in 1..Len(kept) |-> kept[i][1]])
        list(a) == LET mine == SelectSeq(kept, LAMBDA e : e[1] = a)
                   IN [i \in 1..Len(mine) |-> <<mine[i][2], mine[i][3]>>]
    IN [i \in 1..Len(outer) |-> <<outer[i], list(outer[i])>>]

\* the confidences of a target summed, not averaged
AggregateSum(rule_list) == Accumulate(<<>>, rule_list)

\* rule_counter and avg_rules: the mean confidence of every target
AggregateMean(rule_list) ==
    LET rule_counter == Accumulate(<<>>, rule_list)
        targets == [i \in 1..Len(rule_list) |-> rule_list[i][1]]
    IN [i \in 1..Len(rule_counter) |->
          <<rule_counter[i][1],
            FDiv(rule_counter[i][2], <<Count(targets, rule_counter[i][1]), 1>>)>>]

create_market_basket_rules_from_test(test_df) ==
    IF AllItems(test_df) = <<>> THEN <<>>
    ELSE LET events ==
                 Flatten([o \in 1..Len(test_df) |->
                     LET ps == PairsOf(test_df[o])
                     IN [k \in 1..Len(ps) |->
                           <<ps[k][1], ps[k][2], Frac(1, Len(test_df[o]))>>]])
             rules == RulesOf(events)
         IN [i \in 1..Len(rules) |->
               <<rules[i][1], Take(SortedDesc(AggregateMean(rules[i][2])), 10)>>]

\* category_keywords of _categorize_items_from_test, in dict order
category_keywords_v2 ==
    << <<"wings", {"wing", "buffalo", "grilled", "spicy", "mild", "honey", "bbq", "hot"}>>,
       <<"chicken", {"chicken", "strips", "tender", "crispy", "fried"}>>,
       <<"fries", {"fries", "buffalo fries"}>>,
       <<"sides", {"corn", "onion", "rings", "salad", "coleslaw", "bread"}>>,
       <<"dips_sauces", {"dip", "sauce", "ranch", "blue cheese", "honey mustard"}>>,
       <<"drinks", {"drink", "soda", "cola", "sprite", "juice", "water", "oz"}>>,
       <<"combos", {"combo"}>>,
       <<"subs", {"sub", "sandwich"}>> >>

\* category_keywords of _categorize_items, in dict order
category_keywords_v1 ==
    << <<"wings", {"wing", "chicken", "buffalo", "bbq", "hot", "mild", "spicy"}>>,
       <<"drinks", {"drink", "soda", "cola", "sprite", "juice", "water", "beer",
                    "coffee", "tea"}>>,
       <<"sides", {"fries", "onion", "rings", "salad", "coleslaw", "bread", "dip",
                   "sauce"}>>,
       <<"desserts", {"ice cream", "cake", "cookie", "brownie", "pie", "dessert"}>> >>

\* the characters of the item names and of the keywords
Spelling ==
    [x \in Catalogue \cup UNION { category_keywords_v2[g][2] : g \in 1..Len(category_keywords_v2) }
                     \cup UNION { category_keywords_v1[g][2] : g \in 1..Len(category_keywords_v1) } |->
        CASE x = "Traditional Wings" -> <<"T", "r", "a", "d", "i", "t", "i", "o", "n", "a", "l", " ", "W", "i", "n", "g", "s">>
          [] x = "Ranch Dip" -> <<"R", "a", "n", "c", "h", " ", "D", "i", "p">>
          [] x = "Fries" -> <<"F", "r", "i", "e", "s">>
          [] x = "Soda" -> <<"S", "o", "d", "a">>
          [] x = "Cookie" -> <<"C", "o", "o", "k", "i", "e">>
          [] x = "Buffalo Fries" -> <<"B", "u", "f", "f", "a", "l", "o", " ", "F", "r", "i", "e", "s">>
          [] x = "Chicken Sub" -> <<"C", "h", "i", "c", "k", "e", "n", " ", "S", "u", "b">>
          [] x = "SPICY Chicken Sandwich" -> <<"S", "P", "I", "C", "Y", " ", "C", "h", "i", "c", "k", "e", "n", " ", "S", "a", "n", "d", "w", "i", "c", "h">>
          [] x = "Steak Sub" -> <<"S", "t", "e", "a", "k", " ", "S", "u", "b">>
          [] x = "Chocolate Cake" -> <<"C", "h", "o", "c", "o", "l", "a", "t", "e", " ", "C", "a", "k", "e">>
          [] x = "Napkins" -> <<"N", "a", "p", "k", "i", "n", "s">>
          [] x = "Wing Combo" -> <<"W", "i", "n", "g", " ", "C", "o", "m", "b", "o">>
          [] x = "wing" -> <<"w", "i", "n", "g">>
          [] x = "buffalo" -> <<"b", "u", "f", "f", "a", "l", "o">>
          [] x = "grilled" -> <<"g", "r", "i", "l", "l", "e", "d">>
          [] x = "spicy" -> <<"s", "p", "i", "c", "y">>
          [] x = "mild" -> <<"m", "i", "l", "d">>
          [] x = "honey" -> <<"h", "o", "n", "e", "y">>
          [] x = "bbq" -> <<"b", "b", "q">>
          [] x = "hot" -> <<"h", "o", "t">>
          [] x = "chicken" -> <<"c", "h", "i", "c", "k", "e", "n">>
          [] x = "strips" -> <<"s", "t", "r", "i", "p", "s">>
          [] x = "tender" -> <<"t", "e", "n", "d", "e", "r">>
          [] x = "crispy" -> <<"c", "r", "i", "s", "p", "y">>
          [] x = "fried" -> <<"f", "r", "i", "e", "d">>
          [] x = "fries" -> <<"f", "r", "i", "e", "s">>
          [] x = "buffalo fries" -> <<"b", "u", "f", "f", "a", "l", "o", " ", "f", "r", "i", "e", "s">>
          [] x = "corn" -> <<"c", "o", "r", "n">>
          [] x = "onion" -> <<"o", "n", "i", "o", "n">>
          [] x = "rings" -> <<"r", "i", "n", "g", "s">>
          [] x = "salad" -> <<"s", "a", "l", "a", "d">>
          [] x = "coleslaw" -> <<"c", "o", "l", "e", "s", "l", "a", "w">>
          [] x = "bread" -> <<"b", "r", "e", "a", "d">>
          [] x = "dip" -> <<"d", "i", "p">>
          [] x = "sauce" -> <<"s", "a", "u", "c", "e">>
          [] x = "ranch" -> <<"r", "a", "n", "c", "h">>
          [] x = "blue cheese" -> <<"b", "l", "u", "e", " ", "c", "h", "e", "e", "s", "e">>
          [] x = "honey mustard" -> <<"h", "o", "n", "e", "y", " ", "m", "u", "s", "t", "a", "r", "d">>
          [] x = "drink" -> <<"d", "r", "i", "n", "k">>
          [] x = "soda" -> <<"s", "o", "d", "a">>
          [] x = "cola" -> <<"c", "o", "l", "a">>
          [] x = "sprite" -> <<"s", "p", "r", "i", "t", "e">>
          [] x = "juice" -> <<"j", "u", "i", "c", "e">>
          [] x = "water" -> <<"w", "a", "t", "e", "r">>
          [] x = "oz" -> <<"o", "z">>
          [] x = "combo" -> <<"c", "o", "m", "b", "o">>
          [] x = "sub" -> <<"s", "u", "b">>
          [] x = "sandwich" -> <<"s", "a", "n", "d", "w", "i", "c", "h">>
          [] x = "beer" -> <<"b", "e", "e", "r">>
          [] x = "coffee" -> <<"c", "o", "f", "f", "e", "e">>
          [] x = "tea" -> <<"t", "e", "a">>
          [] x = "ice cream" -> <<"i", "c", "e", " ", "c", "r", "e", "a", "m">>
          [] x = "cake" -> <<"c", "a", "k", "e">>
          [] x = "cookie" -> <<"c", "o", "o", "k", "i", "e">>
          [] x = "brownie" -> <<"b", "r", "o", "w", "n", "i", "e">>
          [] x = "pie" -> <<"p", "i", "e">>
          [] x = "dessert" -> <<"d", "e", "s", "s", "e", "r", "t">>]

UpperCase ==
    <<"A", "B", "C", "D", "E", "F", "G", "H", "I", "J", "K", "L", "M",
      "N", "O", "P", "Q", "R", "S", "T", "U", "V", "W", "X", "Y", "Z">>

LowerCase ==
    <<"a", "b", "c", "d", "e", "f", "g", "h", "i", "j", "k", "l", "m",
      "n", "o", "p", "q", "r", "s", "t", "u", "v", "w", "x", "y", "z">>

\* str.lower(), character by character
Lower(s) ==
    [i \in 1..Len(s) |->
        IF \E u \in 1..26 : UpperCase[u] = s[i]
        THEN LowerCase[CHOOSE u \in 1..26 : UpperCase[u] = s[i]]
        ELSE s[i]]

\* item_lower = str(item).lower()
item_lower(item) == Lower(Spelling[item])

\* keyword in item_lower: the keyword occurs as a substring
Contains(s, keyword) ==
    \E i \in 0..(Len(s) - Len(keyword)) : SubSeq(s, i + 1, i + Len(keyword)) = keyword

\* the keywords of either keyword table that occur in the lower-cased name
KeywordsIn ==
    [x \in Catalogue |->
        {k \in DOMAIN Spelling \ Catalogue : Contains(item_lower(x), Spelling[k])}]

\* the last keyword group with a keyword in the name wins
CategorizeLast(item, category_keywords) ==
    LET hits == SelectSeq(category_keywords, LAMBDA g : g[2] \cap KeywordsIn[item] # {})
    IN IF hits = <<>> THEN "other" ELSE hits[Len(hits)][1]

\* the first keyword group with a keyword in the name, else 'other'
Categorize(item, category_keywords) ==
    LET hits == SelectSeq(category_keywords, LAMBDA g : g[2] \cap KeywordsIn[item] # {})
    IN IF hits = <<>> THEN "other" ELSE hits[1][1]

categorize_items_from_test(test_df, order) ==
    LET all_items == SetOrder(SeqToSet(AllItems(test_df)), order)
    IN [i \in 1..Len(all_items) |->
          <<all_items[i], Categorize(all_items[i], category_keywords_v2)>>]

create_features_v2(test_df, order) ==
    [created |-> TRUE,
     engineer |-> "v2",
     counts |-> CooccurrenceCounts(test_df),
     item_frequency |-> calculate_item_frequency_from_test(test_df),
     item_cooccurrence |-> calculate_item_cooccurrence_from_test(test_df),
     item_categories |-> categorize_items_from_test(test_df, order),
     market_basket |-> create_market_basket_rules_from_test(test_df)]

----------------------------------------------------------------------------
(* Feature engineering: feature_engineering.py, on the same orders in long
   format (one line per order and item, grouped by order_id) *)

\* orders_df['item_name']: the items of all orders, line by line
ItemLines(orders_df) == Flatten(orders_df)

\* value_counts() / len(orders_df); value_counts sorts by descending count and
\* promises no order among equal counts
calculate_item_frequency(orders_df, order) ==
    LET lines == ItemLines(orders_df)
        names == SetOrder(SeqToSet(lines), order)
    IN SortedDesc([i \in 1..Len(names) |->
                     <<names[i], Frac(Count(lines, names[i]), Len(lines))>>])

\* unique_items = list(set(items)) of every order
UniqueItems(orders_df, order) ==
    [o \in 1..Len(orders_df) |-> SetOrder(SeqToSet(orders_df[o]), order)]

calculate_item_cooccurrence(orders_df, order) ==
    CooccurrenceOf(UniqueItems(orders_df, order))

\* self.item_cooccurrence: set to {} by __init__ and assigned nowhere else
self_item_cooccurrence == <<>>

\* item_support: the fraction of orders that contain the item
ItemSupport(orders_df, order) ==
    LET names == FirstSeen(Flatten(UniqueItems(orders_df, order)))
    IN [i \in 1..Len(names) |->
          <<names[i],
            Frac(Cardinality({o \in 1..Len(orders_df) :
                                names[i] \in SeqToSet(orders_df[o])}),
                 Len(orders_df))>>]

create_market_basket_rules(orders_df, order) ==
    LET item_support == ItemSupport(orders_df, order)
        unique == UniqueItems(orders_df, order)
        confidence(a, b) ==
            FDiv(Get(Get(self_item_cooccurrence, a, <<>>), b, <<0, 1>>),
                 Get(item_support, a, <<1, 1000>>))
        events ==
            Flatten([o \in 1..Len(unique) |->
                LET ps == PairsOf(unique[o])
                IN [k \in 1..Len(ps) |->
                      <<ps[k][1], ps[k][2], confidence(ps[k][1], ps[k][2])>>]])
        rules == RulesOf(events)
    IN [i \in 1..Len(rules) |-> <<rules[i][1], Take(SortedDesc(rules[i][2]), 10)>>]

\* items = orders_df['item_name'].unique(): in order of appearance
categorize_items(orders_df) ==
    LET items == FirstSeen(ItemLines(orders_df))
    IN [i \in 1..Len(items) |-> <<items[i], Categorize(items[i], category_keywords_v1)>>]

create_features_v1(orders_df, order) ==
    [created |-> TRUE,
     engineer |-> "v1",
     counts |-> CooccurrenceCounts(UniqueItems(orders_df, order)),
     item_frequency |-> calculate_item_frequency(orders_df, order),
     item_cooccurrence |-> calculate_item_cooccurrence(orders_df, order),
     item_categories |-> categorize_items(orders_df),
     market_basket |-> create_market_basket_rules(orders_df, order)]

\* feature_engineering.py reads the orders in long format, where an order
\* without items has no line
create_features(engineer, df, order) ==
    IF engineer = "v1"
    THEN create_features_v1(SelectSeq(df, LAMBDA r : r # <<>>), order)
    ELSE create_features_v2(df, order)

----------------------------------------------------------------------------
(* RecommendationEngine (recommendation_engine.py); f is self.features *)

\* the entries of a score list whose item is not excluded
NotExcluded(scores, exclude_items) ==
    SelectSeq(scores, LAMBDA e : e[1] \notin SeqToSet(exclude_items))

\* the popularity list returned without looking at exclude_items
get_popularity_recommendations_all(f, exclude_items) ==
    Take(SortedDesc(f.item_frequency), 10)

get_cooccurrence_recommendations(f, order_items, exclude_items) ==
    Accumulate(<<>>,
        Flatten([i \in 1..Len(order_items) |->
            NotExcluded(Get(f.item_cooccurrence, order_items[i], <<>>),
                        exclude_items)]))

get_market_basket_recommendations(f, order_items, exclude_items) ==
    Accumulate(<<>>,
        Flatten([i \in 1..Len(order_items) |->
            NotExcluded(Get(f.market_basket, order_items[i], <<>>),
                        exclude_items)]))

complementary_rules ==
    << <<"wings", {"drinks", "sides"}>>,
       <<"drinks", {"wings", "sides", "desserts"}>>,
       <<"sides", {"wings", "drinks"}>>,
       <<"desserts", {"drinks"}>> >>

\* the complementary categories without the default set
get_complementary_categories_no_default(order_categories) ==
    UNION { Get(complementary_rules, c, {}) : c \in order_categories }

get_complementary_categories(order_categories) ==
    LET complementary ==
            UNION { Get(complementary_rules, c, {}) : c \in order_categories }
    IN IF complementary = {} THEN {"wings", "drinks", "sides"} ELSE complementary

get_category_recommendations(f, order_items, exclude_items) ==
    LET order_categories ==
            { Get(f.item_categories, x, "other") :
                x \in { y \in SeqToSet(order_items) : HasKey(f.item_categories, y) } }
        complementary_categories == get_complementary_categories(order_categories)
        hits == SelectSeq(NotExcluded(f.item_categories, exclude_items),
                          LAMBDA e : e[2] \in complementary_categories)
    IN [i \in 1..Len(hits) |->
          <<hits[i][1], FMul(Get(f.item_frequency, hits[i][1], <<0, 1>>), <<1, 2>>)>>]

get_popularity_recommendations(f, exclude_items) ==
    Take(SortedDesc(NotExcluded(f.item_frequency, exclude_items)), 10)

\* score * weight for every entry of a score list
Weighted(scores, weight) ==
    [i \in 1..Len(scores) |-> <<scores[i][1], FMul(scores[i][2], weight)>>]

\* the co-occurrence and the market-basket weights exchanged
BlendSwapped(cooccurrence_recs, basket_recs, category_recs, popularity_recs) ==
    Accumulate(<<>>,
        Weighted(cooccurrence_recs, <<3, 10>>) \o Weighted(basket_recs, <<4, 10>>)
          \o Weighted(category_recs, <<2, 10>>) \o Weighted(popularity_recs, <<1, 10>>))

\* the recommendations dict after the four loops
Blend(cooccurrence_recs, basket_recs, category_recs, popularity_recs) ==
    Accumulate(<<>>,
        Weighted(cooccurrence_recs, <<4, 10>>) \o Weighted(basket_recs, <<3, 10>>)
          \o Weighted(category_recs, <<2, 10>>) \o Weighted(popularity_recs, <<1, 10>>))

\* _recommend_items, with everything it computed on the way
recommend_items(f, order_items, exclude_items) ==
    LET cooccurrence_recs == get_cooccurrence_recommendations(f, order_items, exclude_items)
        basket_recs == get_market_basket_recommendations(f, order_items, exclude_items)
        category_recs == get_category_recommendations(f, order_items, exclude_items)
        popularity_recs == get_popularity_recommendations(f, exclude_items)
        recommendations == Blend(cooccurrence_recs, basket_recs, category_recs,
                                 popularity_recs)
    IN [order_items |-> order_items,
        exclude_items |-> exclude_items,
        cooccurrence_recs |-> cooccurrence_recs,
        basket_recs |-> basket_recs,
        category_recs |-> category_recs,
        popularity_recs |-> popularity_recs,
        recommendations |-> recommendations,
        recs |-> Keys(Take(SortedDesc(recommendations), 3))]

\* _extract_order_items: the non-empty cells of the row, stripped (the names of
\* the table carry no surrounding blanks)
extract_order_items(row) == row

\* the list returned as it is, without the fallback loop
PadNone(recs) == recs

\* while len(recs) < 3: recs.append("popular_item_fallback")
RECURSIVE PadToThree(_)
PadToThree(recs) ==
    IF Len(recs) < 3 THEN PadToThree(Append(recs, "popular_item_fallback")) ELSE recs

\* the body of the loop of predict for one row
PredictRow(f, row) ==
    LET order_items == extract_order_items(row)
        r == recommend_items(f, order_items, order_items)
    IN [computed |-> r, row |-> PadToThree(r.recs)]

----------------------------------------------------------------------------
(* The batch pipeline of main.py: load, create features, train, predict *)

\* position of a row in OrderRows
RowIndex(row) == CHOOSE k \in 1..Len(OrderRows) : OrderRows[k] = row

\* one more order read into the table; the table is read in the order of
\* OrderRows
LoadRow(k) ==
    /\ ~features.created
    /\ Len(data) < MaxOrders
    /\ data # <<>> => RowIndex(data[Len(data)]) <= k
    /\ data' = Append(data, OrderRows[k])
    /\ UNCHANGED <<features, recommender, predictions>>
    /\ UNCHANGED <<engine_vars, pilot_vars>>

\* features = feature_engineer.create_features(data)
CreateFeatures(engineer, order) ==
    /\ ~features.created
    /\ features' = create_features(engineer, data, order)
    /\ UNCHANGED <<data, recommender, predictions>>
    /\ UNCHANGED <<engine_vars, pilot_vars>>

\* RecommendationEngine.train(features)
Train ==
    /\ features.created
    /\ ~recommender.trained
    /\ recommender' = [features |-> features, trained |-> TRUE]
    /\ UNCHANGED <<data, features, predictions>>
    /\ UNCHANGED <<engine_vars, pilot_vars>>

\* RecommendationEngine.predict(test_data, features): raises before training,
\* else one row of three recommendations per order of test_data
PredictTable(test_data) ==
    /\ features.created
    /\ predictions.outcome # "returned"
    /\ predictions' =
          IF ~recommender.trained
          THEN [outcome |-> "raised"]
          ELSE LET per == [row \in SeqToSet(test_data) |->
                             PredictRow(recommender.features, row)]
               IN [outcome |-> "returned",
                   rows |-> [i \in 1..Len(test_data) |-> per[test_data[i]]]]
    /\ UNCHANGED <<data, features, recommender>>
    /\ UNCHANGED <<engine_vars, pilot_vars>>

\* main.py: predictions = recommender.predict(data['test'], features)
Predict == PredictTable(data)

NextPipeline ==
    \/ \E k \in 1..Len(OrderRows) : LoadRow(k)
    \/ \E engineer \in {"v1", "v2"}, order \in HashOrders :
           CreateFeatures(engineer, order)
    \/ Train
    \/ Predict

SpecPipeline == Init /\ [][NextPipeline]_vars

----------------------------------------------------------------------------
(* The feature store and the recommender on sparse and unusual tables *)

\* an empty batch, one order with every item cell empty, single-item orders,
\* the three orders of the end-to-end scenario, orders of further names, and
\* a table with an empty order among others
SparseTables ==
    { <<>>,
      << <<>> >>,
      << <<"Traditional Wings">>, <<"Cookie">> >>,
      << <<"Traditional Wings", "Ranch Dip">>, <<"Traditional Wings", "Fries">>,
         <<"Fries", "Soda">> >>,
      << <<"Buffalo Fries", "Chicken Sub", "SPICY Chicken Sandwich">>,
         <<"Steak Sub", "Chocolate Cake", "Napkins">> >>,
      << <<>>, <<"Soda", "Fries">> >> }

InitTables ==
    /\ recommendation_history = <<>>
    /\ now = 0
    /\ calls = 0
    /\ call = NoCall
    /\ prev = NoPrev
    /\ configured = 0
    /\ threads = [th \in ThreadIds |-> IdleThread]
    /\ data \in SparseTables
    /\ features = NoFeatures
    /\ recommender = [features |-> NoFeatures, trained |-> FALSE]
    /\ predictions = NoPredictions
    /\ PilotInit

NextTables ==
    \/ \E engineer \in {"v1", "v2"}, order \in HashOrders :
           CreateFeatures(engineer, order)
    \/ Train
    \/ \E test_data \in SparseTables : PredictTable(test_data)

SpecTables == InitTables /\ [][NextTables]_vars

----------------------------------------------------------------------------
(* Success measurement: measure_success_metrics
   (enhanced_recommendation_engine.py).  Dicts with optional keys are records. *)

\* most interactions in a batch
MaxInteractions == 3

\* sizes of the batches of plain recommendation dicts
BatchSizes == {1, 3, 10}

\* d.get(k, default)
DictGet(d, k, default) == IF k \in DOMAIN d THEN d[k] ELSE default

\* the value None
None == [none |-> TRUE]

\* truth value of a dict or None: None and {} are false
Truthy(d) == d # None /\ DOMAIN d # {}

RECURSIVE SumOf(_)
SumOf(s) == IF s = <<>> THEN 0 ELSE Head(s) + SumOf(Tail(s))

FSub(x, y) == FAdd(x, <<-y[1], y[2]>>)

FMin(x, y) == IF FLess(y, x) THEN y ELSE x

FMax(x, y) == IF FLess(x, y) THEN y ELSE x

\* the keys of the metrics dict
MetricKeys ==
    {"recommendation_adoption_rate", "average_order_value_lift",
     "basket_size_increase_items", "revenue_per_recommendation",
     "upsell_success_rate", "click_through_rate", "add_to_cart_rate",
     "conversion_rate", "recommendation_interaction_time",
     "customer_satisfaction_score", "recommendation_accuracy",
     "response_time_ms", "personalization_effectiveness", "freshness_score",
     "cross_platform_consistency", "combo_completion_rate",
     "premium_item_upsell_rate", "category_diversification",
     "repeat_recommendation_avoidance", "complaint_rate",
     "order_abandonment_impact", "staff_productivity_impact",
     "system_error_rate"}

\* the simulated system figures already set in the initial dict
ZeroMetricsWithDefaults ==
    [k \in MetricKeys |->
        IF k = "response_time_ms" THEN <<250, 1>>
        ELSE IF k = "system_error_rate" THEN <<1, 100>>
        ELSE <<0, 1>>]

\* metrics = {...}: every key 0.0
ZeroMetrics == [k \in MetricKeys |-> <<0, 1>>]

\* [i for i in user_interactions if i.get('action') == action]
WithAction(user_interactions, action) ==
    SelectSeq(user_interactions, LAMBDA i : DictGet(i, "action", "") = action)

\* 'combo' in i.get('item_name', '').lower()
IsCombo(i) ==
    /\ "item_name" \in DOMAIN i
    /\ Contains(item_lower(i.item_name), Spelling["combo"])

\* the denominator taken to be the number of interactions
RatePerInteraction(n, total_recommendations, total_interactions) ==
    Frac(n, total_interactions)

\* len(...) / total_recommendations
RatePerRecommendation(n, total_recommendations, total_interactions) ==
    Frac(n, total_recommendations)

\* a ratio computed without its guard: a zero denominator raises
ConversionUnguarded(purchases, clicks) ==
    IF Len(clicks) > 0 THEN Frac(Len(purchases), Len(clicks)) ELSE <<1, 0>>

\* if len(clicks) > 0: len(purchases) / len(clicks); else the initial 0.0
Conversion(purchases, clicks) ==
    IF Len(clicks) > 0 THEN Frac(Len(purchases), Len(clicks)) ELSE <<0, 1>>

\* (current_aov - baseline_aov) / baseline_aov if baseline_aov > 0 else 0
AovLift(user_interactions, baseline_data) ==
    IF Truthy(baseline_data) /\ "baseline_aov" \in DOMAIN baseline_data
    THEN LET current_aov ==
                 Frac(SumOf([i \in 1..Len(user_interactions) |->
                               DictGet(user_interactions[i], "order_value", 0)]),
                      Len(user_interactions))
             baseline_aov == baseline_data.baseline_aov
         IN IF baseline_aov > 0
            THEN FDiv(FSub(current_aov, <<baseline_aov, 1>>), <<baseline_aov, 1>>)
            ELSE <<0, 1>>
    ELSE <<0, 1>>

\* purchases priced above the mean item_price of all interactions, per purchase
PremiumUpsell(user_interactions, purchases) ==
    LET avg_price ==
            Frac(SumOf([i \in 1..Len(user_interactions) |->
                          DictGet(user_interactions[i], "item_price", 0)]),
                 Len(user_interactions))
        premium_purchases ==
            SelectSeq(purchases,
                      LAMBDA i : FLess(avg_price, <<DictGet(i, "item_price", 0), 1>>))
    IN IF Len(purchases) > 0
       THEN Frac(Len(premium_purchases), Len(purchases))
       ELSE <<0, 1>>

\* set([r.get('category', '') for r in recommendations])
UniqueCategories(recommendations) ==
    { DictGet(recommendations[r], "category", "") : r \in 1..Len(recommendations) }

measure_success_metrics(recommendations, user_interactions, baseline_data) ==
    IF recommendations = <<>> \/ user_interactions = <<>>
    THEN ZeroMetrics
    ELSE LET total_recommendations == Len(recommendations)
             total_interactions == Len(user_interactions)
             purchases == WithAction(user_interactions, "purchase")
             clicks == WithAction(user_interactions, "click")
             adds == WithAction(user_interactions, "add_to_cart")
             adoption == RatePerRecommendation(Len(purchases), total_recommendations,
                                               total_interactions)
             combo_interactions == SelectSeq(user_interactions, IsCombo)
             recommendation_items ==
                 [r \in 1..Len(recommendations) |->
                    DictGet(recommendations[r], "item_name", "")]
             satisfaction ==
                 IF purchases # <<>>
                 THEN FMin(<<5, 1>>, FAdd(<<7, 2>>, FMul(adoption, <<3, 2>>)))
                 ELSE <<0, 1>>
         IN [ZeroMetrics EXCEPT
               !["recommendation_adoption_rate"] = adoption,
               !["click_through_rate"] =
                   RatePerRecommendation(Len(clicks), total_recommendations,
                                         total_interactions),
               !["add_to_cart_rate"] =
                   RatePerRecommendation(Len(adds), total_recommendations,
                                         total_interactions),
               !["conversion_rate"] = Conversion(purchases, clicks),
               !["average_order_value_lift"] = AovLift(user_interactions, baseline_data),
               !["combo_completion_rate"] =
                   Frac(Len(combo_interactions), total_interactions),
               !["premium_item_upsell_rate"] = PremiumUpsell(user_interactions, purchases),
               !["category_diversification"] =
                   Frac(Cardinality(UniqueCategories(recommendations)), 10),
               !["repeat_recommendation_avoidance"] =
                   Frac(Cardinality(SeqToSet(recommendation_items)),
                        Len(recommendation_items)),
               !["response_time_ms"] = <<250, 1>>,
               !["system_error_rate"] = <<1, 100>>,
               !["cross_platform_consistency"] = <<19, 20>>,
               !["recommendation_accuracy"] =
                   IF purchases # <<>> THEN adoption ELSE <<0, 1>>,
               !["customer_satisfaction_score"] = satisfaction,
               !["complaint_rate"] =
                   FMax(<<0, 1>>, FSub(<<1, 20>>, FMul(satisfaction, <<1, 100>>)))]

(* The arguments of the calls *)

\* interaction events: two purchases, an add-to-cart without order value, a
\* click without price and order value
InteractionKinds ==
    << [action |-> "purchase", item_name |-> "Wing Combo", order_value |-> 30,
        item_price |-> 12],
       [action |-> "purchase", item_name |-> "Fries", order_value |-> 10,
        item_price |-> 4],
       [action |-> "add_to_cart", item_name |-> "Soda", item_price |-> 2],
       [action |-> "click", item_name |-> "Cookie"] >>

\* the batches of at most MaxInteractions events, in the order of InteractionKinds
UserInteractionBatches ==
    UNION { { [i \in 1..n |-> InteractionKinds[f[i]]] :
                f \in { g \in [1..n -> 1..Len(InteractionKinds)] :
                          \A i, j \in 1..n : i <= j => g[i] <= g[j] } } :
            n \in 0..MaxInteractions }

PlainItems ==
    << <<"Fries", "fries">>, <<"Soda", "drinks">>, <<"Cookie", "desserts">>,
       <<"Ranch Dip", "dips_sauces">> >>

\* n dicts that carry their category at the top level
PlainBatch(n) ==
    [i \in 1..n |->
        [item_name |-> PlainItems[((i - 1) % Len(PlainItems)) + 1][1],
         category |-> PlainItems[((i - 1) % Len(PlainItems)) + 1][2]]]

\* no batch, the list the last generate_fresh_recommendations call returned,
\* and plain batches
RecommendationBatches ==
    {<<>>, call.recommendations} \cup { PlainBatch(n) : n \in BatchSizes }

\* None, {}, a zero baseline and a positive one
Baselines == {None, <<>>, [baseline_aov |-> 0], [baseline_aov |-> 20]}

\* a call of measure_success_metrics; the function keeps nothing between calls,
\* so one call is made in a run
MeasureSuccessMetrics(recommendations, user_interactions, baseline_data) ==
    /\ ~measured.done
    /\ measured' =
          [done |-> TRUE,
           recommendations |-> recommendations,
           user_interactions |-> user_interactions,
           baseline_data |-> baseline_data,
           metrics |-> measure_success_metrics(recommendations, user_interactions,
                                               baseline_data)]
    /\ UNCHANGED <<engine_vars, pipeline_vars, pilot_config, health_status>>

\* the batch measured is the list of one generate_fresh_recommendations call
GenerateBatch == calls = 0 /\ Next

NextMetrics ==
    \/ GenerateBatch
    \/ \E recommendations \in RecommendationBatches,
          user_interactions \in UserInteractionBatches,
          baseline_data \in Baselines :
            MeasureSuccessMetrics(recommendations, user_interactions, baseline_data)

SpecMetrics == Init /\ [][NextMetrics]_vars

\* the feature store and the success measurement on sparse data
NextRatios ==
    \/ \E engineer \in {"v1", "v2"}, order \in HashOrders :
           CreateFeatures(engineer, order)
    \/ \E recommendations \in RecommendationBatches,
          user_interactions \in UserInteractionBatches,
          baseline_data \in Baselines :
            MeasureSuccessMetrics(recommendations, user_interactions, baseline_data)

SpecRatios == InitTables /\ [][NextRatios]_vars

----------------------------------------------------------------------------
(* Pilot health monitoring: WingsRUsPilotFramework (pilot_testing_framework.py).
   The names of triggers, criteria and metrics are strings of characters, so
   that replace, startswith, endswith and 'in' are computed. *)

PilotNames ==
    {"complaint_rate_threshold", "system_error_rate_threshold", "negative_aov_impact_threshold",
     "order_time_increase_threshold", "customer_satisfaction_threshold", "min_basket_size_lift",
     "min_add_to_cart_rate", "max_order_completion_time_increase", "min_customer_satisfaction",
     "max_complaint_rate", "complaint_rate", "system_error_rate",
     "negative_aov_impact", "order_time_increase", "customer_satisfaction",
     "basket_size_lift", "add_to_cart_rate", "order_completion_time_increase",
     "negative", "_threshold", "min_",
     "max_"}

PilotSpelling ==
    [n \in PilotNames |->
        CASE n = "complaint_rate_threshold" ->
               <<"c", "o", "m", "p", "l", "a", "i", "n", "t", "_", "r", "a", "t", "e", "_", "t", "h", "r", "e", "s", "h", "o", "l", "d">>
          [] n = "system_error_rate_threshold" ->
               <<"s", "y", "s", "t", "e", "m", "_", "e", "r", "r", "o", "r", "_", "r", "a", "t", "e", "_", "t", "h", "r", "e", "s", "h", "o", "l", "d">>
          [] n = "negative_aov_impact_threshold" ->
               <<"n", "e", "g", "a", "t", "i", "v", "e", "_", "a", "o", "v", "_", "i", "m", "p", "a", "c", "t", "_", "t", "h", "r", "e", "s", "h", "o", "l", "d">>
          [] n = "order_time_increase_threshold" ->
               <<"o", "r", "d", "e", "r", "_", "t", "i", "m", "e", "_", "i", "n", "c", "r", "e", "a", "s", "e", "_", "t", "h", "r", "e", "s", "h", "o", "l", "d">>
          [] n = "customer_satisfaction_threshold" ->
               <<"c", "u", "s", "t", "o", "m", "e", "r", "_", "s", "a", "t", "i", "s", "f", "a", "c", "t", "i", "o", "n", "_", "t", "h", "r", "e", "s", "h", "o", "l", "d">>
          [] n = "min_basket_size_lift" ->
               <<"m", "i", "n", "_", "b", "a", "s", "k", "e", "t", "_", "s", "i", "z", "e", "_", "l", "i", "f", "t">>
          [] n = "min_add_to_cart_rate" ->
               <<"m", "i", "n", "_", "a", "d", "d", "_", "t", "o", "_", "c", "a", "r", "t", "_", "r", "a", "t", "e">>
          [] n = "max_order_completion_time_increase" ->
               <<"m", "a", "x", "_", "o", "r", "d", "e", "r", "_", "c", "o", "m", "p", "l", "e", "t", "i", "o", "n", "_", "t", "i", "m", "e", "_", "i", "n", "c", "r", "e", "a", "s", "e">>
          [] n = "min_customer_satisfaction" ->
               <<"m", "i", "n", "_", "c", "u", "s", "t", "o", "m", "e", "r", "_", "s", "a", "t", "i", "s", "f", "a", "c", "t", "i", "o", "n">>
          [] n = "max_complaint_rate" ->
               <<"m", "a", "x", "_", "c", "o", "m", "p", "l", "a", "i", "n", "t", "_", "r", "a", "t", "e">>
          [] n = "complaint_rate" ->
               <<"c", "o", "m", "p", "l", "a", "i", "n", "t", "_", "r", "a", "t", "e">>
          [] n = "system_error_rate" ->
               <<"s", "y", "s", "t", "e", "m", "_", "e", "r", "r", "o", "r", "_", "r", "a", "t", "e">>
          [] n = "negative_aov_impact" ->
               <<"n", "e", "g", "a", "t", "i", "v", "e", "_", "a", "o", "v", "_", "i", "m", "p", "a", "c", "t">>
          [] n = "order_time_increase" ->
               <<"o", "r", "d", "e", "r", "_", "t", "i", "m", "e", "_", "i", "n", "c", "r", "e", "a", "s", "e">>
          [] n = "customer_satisfaction" ->
               <<"c", "u", "s", "t", "o", "m", "e", "r", "_", "s", "a", "t", "i", "s", "f", "a", "c", "t", "i", "o", "n">>
          [] n = "basket_size_lift" ->
               <<"b", "a", "s", "k", "e", "t", "_", "s", "i", "z", "e", "_", "l", "i", "f", "t">>
          [] n = "add_to_cart_rate" ->
               <<"a", "d", "d", "_", "t", "o", "_", "c", "a", "r", "t", "_", "r", "a", "t", "e">>
          [] n = "order_completion_time_increase" ->
               <<"o", "r", "d", "e", "r", "_", "c", "o", "m", "p", "l", "e", "t", "i", "o", "n", "_", "t", "i", "m", "e", "_", "i", "n", "c", "r", "e", "a", "s", "e">>
          [] n = "negative" ->
               <<"n", "e", "g", "a", "t", "i", "v", "e">>
          [] n = "_threshold" ->
               <<"_", "t", "h", "r", "e", "s", "h", "o", "l", "d">>
          [] n = "min_" ->
               <<"m", "i", "n", "_">>
          [] n = "max_" ->
               <<"m", "a", "x", "_">>]

\* s.startswith(prefix)
StartsWith(s, prefix) ==
    /\ Len(s) >= Len(prefix)
    /\ SubSeq(s, 1, Len(prefix)) = prefix

\* s.endswith(suffix)
EndsWith(s, suffix) ==
    /\ Len(s) >= Len(suffix)
    /\ SubSeq(s, Len(s) - Len(suffix) + 1, Len(s)) = suffix

\* s.replace(old, ''): every occurrence of old removed, from the left
RECURSIVE Replace(_, _)
Replace(s, old) ==
    IF Len(s) < Len(old) THEN s
    ELSE IF StartsWith(s, old) THEN Replace(SubSeq(s, Len(old) + 1, Len(s)), old)
    ELSE <<Head(s)>> \o Replace(Tail(s), old)

\* current_metrics.get(name, 0), the name given by its characters
MetricGet(current_metrics, name) ==
    LET keys == {k \in DOMAIN current_metrics : PilotSpelling[k] = name}
    IN IF keys = {} THEN <<0, 1>> ELSE current_metrics[CHOOSE k \in keys : TRUE]

\* pilot_config['rollback_triggers'], in the order of the dict
rollback_triggers ==
    << <<"complaint_rate_threshold", <<1, 20>> >>,
       <<"system_error_rate_threshold", <<1, 50>> >>,
       <<"negative_aov_impact_threshold", <<-3, 100>> >>,
       <<"order_time_increase_threshold", <<60, 1>> >>,
       <<"customer_satisfaction_threshold", <<3, 1>> >> >>

\* pilot_config['success_criteria'], in the order of the dict
success_criteria ==
    << <<"min_basket_size_lift", <<1, 20>> >>,
       <<"min_add_to_cart_rate", <<1, 10>> >>,
       <<"max_order_completion_time_increase", <<30, 1>> >>,
       <<"min_customer_satisfaction", <<4, 1>> >>,
       <<"max_complaint_rate", <<1, 50>> >> >>

\* the test of one rollback trigger: whether the threshold is breached
TriggerBreached(trigger, threshold, current_metrics) ==
    LET name == PilotSpelling[trigger]
        current_value == MetricGet(current_metrics, Replace(name, PilotSpelling["_threshold"]))
        negative == Contains(name, PilotSpelling["negative"])
    IN /\ EndsWith(name, PilotSpelling["_threshold"])
       /\ \/ negative /\ FLess(current_value, threshold)
          \/ ~negative /\ FLess(threshold, current_value)

\* the critical alerts of the first loop, in the order of the triggers
CriticalAlerts(triggers, current_metrics) ==
    LET hit == SelectSeq(triggers,
                   LAMBDA e : TriggerBreached(e[1], e[2], current_metrics))
    IN [i \in 1..Len(hit) |->
          [level |-> "critical",
           metric |-> Replace(PilotSpelling[hit[i][1]], PilotSpelling["_threshold"]),
           current_value |->
               MetricGet(current_metrics,
                         Replace(PilotSpelling[hit[i][1]], PilotSpelling["_threshold"])),
           threshold |-> hit[i][2]]]

\* the test of one success criterion: whether a warning is raised
CriterionMissed(criteria, target, current_metrics) ==
    LET name == PilotSpelling[criteria]
        current_value ==
            MetricGet(current_metrics,
                      Replace(Replace(name, PilotSpelling["min_"]), PilotSpelling["max_"]))
    IN \/ StartsWith(name, PilotSpelling["min_"]) /\ FLess(current_value, target)
       \/ /\ ~StartsWith(name, PilotSpelling["min_"])
          /\ StartsWith(name, PilotSpelling["max_"])
          /\ FLess(target, current_value)

\* the warning alerts of the second loop, in the order of the criteria
WarningAlerts(criteria_list, current_metrics) ==
    LET hit == SelectSeq(criteria_list,
                   LAMBDA e : CriterionMissed(e[1], e[2], current_metrics))
    IN [i \in 1..Len(hit) |->
          [level |-> "warning",
           metric |-> PilotSpelling[hit[i][1]],
           current_value |->
               MetricGet(current_metrics,
                         Replace(Replace(PilotSpelling[hit[i][1]], PilotSpelling["min_"]),
                                 PilotSpelling["max_"])),
           target |-> hit[i][2]]]

\* the recommendations written for a status
StatusRecommendations(overall_status) ==
    CASE overall_status = "critical" ->
           <<"Immediate rollback recommended",
             "Investigate root cause of performance issues",
             "Review system configuration and data">>
      [] overall_status = "warning" ->
           <<"Monitor closely for next 24 hours",
             "Consider algorithm adjustments",
             "Increase customer feedback collection">>
      [] OTHER ->
           <<"Continue pilot as planned",
             "Maintain current monitoring level",
             "Prepare for potential scale-up">>

\* monitor_pilot_health: the health_status dict it builds
monitor_pilot_health(config, current_metrics) ==
    LET critical == CriticalAlerts(config.rollback_triggers, current_metrics)
        warnings == WarningAlerts(config.success_criteria, current_metrics)
        after_triggers == IF critical # <<>> THEN "critical" ELSE "healthy"
        overall_status ==
            IF warnings # <<>> /\ after_triggers = "healthy"
            THEN "warning" ELSE after_triggers
    IN [overall_status |-> overall_status,
        status_after_triggers |-> after_triggers,
        alerts |-> critical \o warnings,
        recommendations |-> StatusRecommendations(overall_status),
        should_continue |-> TRUE,
        should_rollback |-> critical # <<>>]

\* a value read for a metric, or no reading of it
NoReading == <<>>

\* the readings tried for every metric: below, at and above the thresholds
MetricReadings ==
    [complaint_rate : {NoReading, <<1, 100>>, <<3, 100>>, <<3, 50>>},
     system_error_rate : {NoReading, <<3, 100>>},
     negative_aov_impact : {NoReading, <<-1, 20>>},
     order_time_increase : {NoReading, <<90, 1>>},
     customer_satisfaction : {NoReading, <<2, 1>>, <<3, 1>>, <<21, 5>>},
     basket_size_lift : {NoReading, <<1, 10>>},
     add_to_cart_rate : {NoReading, <<3, 20>>},
     order_completion_time_increase : {NoReading, <<45, 1>>}]

\* the dict of the metrics that were read
MetricsDict(readings) ==
    [k \in {n \in DOMAIN readings : readings[n] # NoReading} |-> readings[k]]

\* pilot_config = design_pilot_strategy(store_data)
DesignPilotStrategy ==
    /\ pilot_config.rollback_triggers = <<>>
    /\ pilot_config' = [rollback_triggers |-> rollback_triggers,
                        success_criteria |-> success_criteria]
    /\ UNCHANGED <<measured, health_status>>
    /\ UNCHANGED <<engine_vars, pipeline_vars>>

\* health_status = monitor_pilot_health(current_metrics); the function keeps
\* nothing between calls, so one call is made in a run
MonitorPilotHealth(current_metrics) ==
    /\ ~health_status.monitored
    /\ health_status' =
          [monitored |-> TRUE,
           designed |-> pilot_config.rollback_triggers # <<>>,
           current_metrics |-> current_metrics,
           status |-> monitor_pilot_health(pilot_config, current_metrics)]
    /\ UNCHANGED <<measured, pilot_config>>
    /\ UNCHANGED <<engine_vars, pipeline_vars>>

NextPilot ==
    \/ DesignPilotStrategy
    \/ \E readings \in MetricReadings : MonitorPilotHealth(MetricsDict(readings))

SpecPilot == Init /\ [][NextPilot]_vars

----------------------------------------------------------------------------
(* Properties *)

Names == ItemNames(call.recommendations)

NameSet == SeqToSet(Names)

\* age of a history entry at the last call, in ticks
Age(e) == call.t - e[2]

WindowTicks == history_window_days * TicksPerDay

RetentionTicks == retention_days * TicksPerDay

\* the items recommended to the customer within the 7 days before the call
ShownInWindow == { call.prior[i][1] : i \in { j \in 1..Len(call.prior) :
                                               Age(call.prior[j]) <= WindowTicks } }

\* everything any source could have offered for the cart of the call
Candidates ==
    (SeqToSet(call.base_recs) \cup SeqToSet(TrendingTable)
       \cup SeqToSet(SeasonalTable[MonthOf(call.t)]) \cup SeqToSet(FallbackTable))
    \ SeqToSet(call.current_items)

\* C1: an item the customer was recommended within the last 7 days is in no
\* slot of the returned list, unless every other candidate is in the list too.
C1_FreshnessAllSlots ==
    call.returned =>
        \A x \in NameSet :
            x \in ShownInWindow => (Candidates \ ShownInWindow) \subseteq NameSet

\* C2: a returned list has at most N records and the record at position i
\* carries rank i.
C2_CountAndRanks ==
    call.returned =>
        /\ Len(call.recommendations) <= call.max_recs
        /\ \A i \in 1..Len(call.recommendations) : call.recommendations[i].rank = i

\* a call whose combined list was longer than N and was cut to N records
C2_Witness ==
    /\ call.returned
    /\ Len(call.final_recs) > call.max_recs
    /\ Len(call.recommendations) = call.max_recs

\* C3: right after a call for customer c, every entry of c's history is less
\* than 30 days older than the call.
C3_Retention ==
    call.returned =>
        LET h == HistoryOf(recommendation_history, call.customer_id)
        IN \A i \in 1..Len(h) : Age(h[i]) < RetentionTicks

\* a call that found an entry 30 days old or older and one younger
C3_Witness ==
    /\ call.returned
    /\ \E i \in 1..Len(call.prior) : Age(call.prior[i]) >= RetentionTicks
    /\ \E i \in 1..Len(call.prior) : Age(call.prior[i]) < RetentionTicks

\* C4: the call leaves c's history equal to the prior entries younger than 30
\* days, in their order, followed by one entry (item, t) per returned record in
\* rank order.
C4_HistoryWrite ==
    call.returned =>
        /\ call.customer_id \in DOMAIN recommendation_history
        /\ recommendation_history[call.customer_id] =
             SelectSeq(call.prior, LAMBDA e : Age(e) < RetentionTicks)
               \o [i \in 1..Len(Names) |-> <<Names[i], call.t>>]

\* a call that kept an entry older than the freshness window, dropped one and
\* appended its own
C4_Witness ==
    /\ call.returned
    /\ Len(Names) > 0
    /\ \E i \in 1..Len(call.prior) : Age(call.prior[i]) >= RetentionTicks
    /\ \E i \in 1..Len(call.prior) :
          /\ Age(call.prior[i]) < RetentionTicks
          /\ Age(call.prior[i]) > WindowTicks + TicksPerDay

\* C5: after two concurrent calls for one customer have both completed, the
\* customer's history holds an entry for every item either call returned.
C5_NoLostUpdate ==
    \A a, b \in ThreadIds :
        (/\ a # b
         /\ threads[a].pc = "done"
         /\ threads[b].pc = "done"
         /\ threads[a].customer_id = threads[b].customer_id)
        => \A i \in 1..Len(threads[a].recommendations) :
             \E j \in 1..Len(HistoryOf(recommendation_history,
                                       threads[a].customer_id)) :
                HistoryOf(recommendation_history, threads[a].customer_id)[j]
                  = <<threads[a].recommendations[i].item_name, threads[a].t>>

\* C6: a call that directly follows a call for the same customer and cart,
\* within the freshness window, with at least 4 fresh candidates, returns an
\* item the previous call did not return, whatever the trending draw.
C6_AntiRepetition ==
    (/\ call.returned
     /\ InARow(call, prev)
     /\ Len(call.fresh_recs) >= 4)
    => \E x \in NameSet : x \notin SeqToSet(prev.items)

\* the third of three such calls in a row
C6_Witness ==
    /\ call.returned
    /\ call.streak = 3
    /\ InARow(call, prev)
    /\ Len(prev.items) = call.max_recs

\* C7: a record is tagged trending exactly when the trending draw placed it,
\* seasonal exactly when the seasonal selection placed it, and personalized
\* otherwise (pool and backfill).
C7_TypeByPlacement ==
    call.returned =>
        \A i \in 1..Len(call.recommendations) :
            call.recommendations[i].recommendation_type =
                CASE call.origin[i] = "draw" -> "trending"
                  [] call.origin[i] = "seasonal" -> "seasonal"
                  [] OTHER -> "personalized"

\* C8: a call places at most max(1, floor(0.2 N)) drawn trending items, at most
\* max(1, floor(0.1 N)) seasonal items and at most max(0, N - both) pool items,
\* the pool items first.
C8_SlotReservation ==
    call.returned =>
        LET n == call.max_recs
            tc == IF n \div 5 >= 1 THEN n \div 5 ELSE 1
            sc == IF n \div 10 >= 1 THEN n \div 10 ELSE 1
            bc == IF n - tc - sc >= 0 THEN n - tc - sc ELSE 0
            pool == { i \in 1..Len(call.final_recs) : call.origin[i] = "pool" }
            draw == { i \in 1..Len(call.final_recs) : call.origin[i] = "draw" }
            seas == { i \in 1..Len(call.final_recs) : call.origin[i] = "seasonal" }
        IN /\ Cardinality(draw) <= tc
           /\ Cardinality(seas) <= sc
           /\ Cardinality(pool) <= bc
           /\ \A i \in pool : /\ \A j \in 1..Len(call.final_recs) \ pool : i < j
                              /\ call.final_recs[i] = call.category_recommendations[i]
           /\ \A i \in draw : call.final_recs[i] \in SeqToSet(call.trending_items)
           /\ \A i \in seas : call.final_recs[i] \in SeqToSet(call.seasonal_items)

\* a call with N = 5 whose pool, trending list and seasonal list each held more
\* than was placed
C8_Witness ==
    /\ call.returned
    /\ call.max_recs = 5
    /\ Len(call.base_part) = 3
    /\ Len(call.category_recommendations) > 3
    /\ Len(call.trending_sample) = 1
    /\ Len(call.trending_items) > 1
    /\ Len(call.seasonal_part) = 1

\* C9: the backfill loop only adds fallback items that are neither in the list
\* nor in the cart, one per iteration, runs at most N - len times, and stops
\* with the list at N or the fallback exhausted; a short list is returned as is.
C9_Backfill ==
    call.returned =>
        LET pre == call.combined
            fin == call.final_recs
            n == call.max_recs
            short == IF n > Len(pre) THEN n - Len(pre) ELSE 0
        IN /\ Len(fin) >= Len(pre)
           /\ SubSeq(fin, 1, Len(pre)) = pre
           /\ \A i \in (Len(pre) + 1)..Len(fin) :
                 /\ fin[i] \in SeqToSet(FallbackTable)
                 /\ fin[i] \notin SeqToSet(call.current_items)
                 /\ \A j \in 1..(i - 1) : fin[j] # fin[i]
           /\ Len(fin) - Len(pre) <= call.iterations
           /\ call.iterations <= short
           /\ Len(fin) <= Max2(n, Len(pre))
           /\ Len(fin) < n =>
                 /\ SeqToSet(FallbackTable)
                      \subseteq SeqToSet(fin) \cup SeqToSet(call.current_items)
                 /\ Names = fin

\* a call whose loop added an item and then ran out of fallback items
C9_Witness ==
    /\ call.returned
    /\ Len(call.final_recs) > Len(call.combined)
    /\ Len(call.final_recs) < call.max_recs
    /\ Len(call.recommendations) = Len(call.final_recs)

\* C11: without an override of platform_configs, a kiosk request is built with
\* N = 3, an app request with N = 3 and a web request with N = 5.
C11_PlatformTarget ==
    (call.returned /\ configured = 0) =>
        call.max_recs = (CASE call.platform = "Kiosk" -> 3
                           [] call.platform = "Digital" -> 3
                           [] call.platform = "Web" -> 5)

\* C12: a base candidate whose entries in the customer's history are all older
\* than 7 days at the call passes the freshness filter.
C12_WindowBoundary ==
    call.returned =>
        \A x \in SeqToSet(call.base_recs) :
            (\A i \in 1..Len(call.prior) :
                call.prior[i][1] = x => Age(call.prior[i]) > WindowTicks)
            => x \in SeqToSet(call.fresh_recs)

\* C13: a call made with a negative target count does not return normally and
\* leaves the customer's history as it found it.
C13_InvalidTargetRejected ==
    call.max_recs < 0 =>
        /\ ~call.returned
        /\ HistoryOf(recommendation_history, call.customer_id) = call.prior

\* position of x in the list s (0 if absent)
IndexOf(s, x) ==
    IF x \in SeqToSet(s) THEN CHOOSE i \in 1..Len(s) : s[i] = x ELSE 0

\* C14: the diversity pool holds items of the freshness-filtered list only, each
\* once; within a category it holds the best-ranked items, in rank order; no
\* category has a second item in the pool before every category of the filtered
\* list has its first; the pool has min(N, length of the filtered list) items.
C14_DiversityPass ==
    call.returned =>
        LET pool == call.category_recommendations
            fresh == call.fresh_recs
            cat(x) == get_wings_r_us_category(x)
        IN /\ SeqToSet(pool) \subseteq SeqToSet(fresh)
           /\ NoDup(pool)
           /\ \A i \in 1..Len(pool) : \A y \in SeqToSet(fresh) :
                 (cat(y) = cat(pool[i]) /\ IndexOf(fresh, y) < IndexOf(fresh, pool[i]))
                 => (IndexOf(pool, y) > 0 /\ IndexOf(pool, y) < i)
           /\ \A i, j \in 1..Len(pool) :
                 (i < j /\ cat(pool[i]) = cat(pool[j]))
                 => \A y \in SeqToSet(fresh) :
                      \E k \in 1..(j - 1) : cat(pool[k]) = cat(y)
           /\ Len(pool) = Min2(call.max_recs, Len(fresh))

\* a call whose pool went into a second round: the second-ranked candidate,
\* of the category of the first, was placed after four lower-ranked ones
C14_Witness ==
    /\ call.returned
    /\ Len(call.fresh_recs) >= 6
    /\ Len(call.category_recommendations) >= 6
    /\ call.category_recommendations[6] = call.fresh_recs[2]
    /\ get_wings_r_us_category(call.fresh_recs[1])
         = get_wings_r_us_category(call.fresh_recs[2])

----------------------------------------------------------------------------
(* Properties of the feature store *)

\* the orders of the table that contain both a and b
OrdersWithBoth(a, b) ==
    {o \in 1..Len(data) : a \in SeqToSet(data[o]) /\ b \in SeqToSet(data[o])}

\* C15: the co-occurrence matrix pairs no item with itself, and the count of an
\* ordered pair (a, b) is at most the number of orders that contain both.
C15_NoSelfCooccurrence ==
    features.created =>
        \A i \in 1..Len(features.counts.cooccurrence) :
            LET a == features.counts.cooccurrence[i][1]
                row == features.counts.cooccurrence[i][2]
            IN /\ ~HasKey(features.item_cooccurrence[i][2], a)
               /\ \A j \in 1..Len(row) :
                     row[j][2] <= Cardinality(OrdersWithBoth(a, row[j][1]))

\* support(a): the fraction of the orders that contain a
Support(a) ==
    Frac(Cardinality({o \in 1..Len(data) : a \in SeqToSet(data[o])}), Len(data))

\* confidence(a -> b) = cooccurrence(a, b) / support(a), 0 where a is in no order
Confidence(a, b) ==
    IF Support(a)[1] = 0 THEN <<0, 1>>
    ELSE FDiv(Get(Get(features.item_cooccurrence, a, <<>>), b, <<0, 1>>), Support(a))

IsSortedDesc(list) ==
    \A i \in 1..(Len(list) - 1) : FLeq(list[i + 1][2], list[i][2])

\* C16: the rule list of a holds (b, c) exactly when c is confidence(a -> b) and
\* exceeds 0.1 (no item of the table has more than 10 partners); every rule
\* list is sorted by descending confidence and has at most 10 entries.
C16_MarketBasketRules ==
    (features.created /\ data # <<>>) =>
        /\ \A a \in Menu : \A b \in Menu \ {a} :
              LET rules == Get(features.market_basket, a, <<>>)
              IN /\ FLess(<<1, 10>>, Confidence(a, b))
                      => \E k \in 1..Len(rules) : rules[k] = <<b, Confidence(a, b)>>
                 /\ \A k \in 1..Len(rules) :
                      rules[k][1] = b =>
                          /\ rules[k][2] = Confidence(a, b)
                          /\ FLess(<<1, 10>>, rules[k][2])
        /\ \A i \in 1..Len(features.market_basket) :
              /\ IsSortedDesc(features.market_basket[i][2])
              /\ Len(features.market_basket[i][2]) <= 10

\* C17: every confidence stored in the market-basket rule set lies in [0, 1].
C17_ConfidenceRange ==
    features.created =>
        \A i \in 1..Len(features.market_basket) :
            \A k \in 1..Len(features.market_basket[i][2]) :
                /\ FLeq(<<0, 1>>, features.market_basket[i][2][k][2])
                /\ FLeq(features.market_basket[i][2][k][2], <<1, 1>>)

\* a table of mostly single-item orders whose rule set holds a rule built from
\* three orders
C17_Witness ==
    /\ features.created
    /\ Len(data) >= 5
    /\ 2 * Cardinality({o \in 1..Len(data) : Len(data[o]) = 1}) > Len(data)
    /\ Cardinality(OrdersWithBoth("Traditional Wings", "Cookie")) >= 3
    /\ HasKey(Get(features.market_basket, "Traditional Wings", <<>>), "Cookie")

RECURSIVE FSum(_)
FSum(values) == IF values = <<>> THEN <<0, 1>> ELSE FAdd(Head(values), FSum(Tail(values)))

\* C18: for a non-empty order table every co-occurrence value and every item
\* frequency lies in [0, 1], and the item frequencies sum to 1.
C18_ProbabilityRanges ==
    (features.created /\ data # <<>>) =>
        /\ \A i \in 1..Len(features.item_cooccurrence) :
              \A j \in 1..Len(features.item_cooccurrence[i][2]) :
                  /\ FLeq(<<0, 1>>, features.item_cooccurrence[i][2][j][2])
                  /\ FLeq(features.item_cooccurrence[i][2][j][2], <<1, 1>>)
        /\ \A i \in 1..Len(features.item_frequency) :
              /\ FLeq(<<0, 1>>, features.item_frequency[i][2])
              /\ FLeq(features.item_frequency[i][2], <<1, 1>>)
        /\ FSum([i \in 1..Len(features.item_frequency) |->
                    features.item_frequency[i][2]]) = <<1, 1>>
        /\ NoDup(Keys(features.item_frequency))
        /\ SeqToSet(Keys(features.item_frequency)) = SeqToSet(Flatten(data))

\* features of a table with orders of one, two and three items, one of them
\* listing an item twice
C18_Witness ==
    /\ features.created
    /\ \E o \in 1..Len(data) : Len(data[o]) = 1
    /\ \E o \in 1..Len(data) : Len(data[o]) = 3 /\ ~NoDup(data[o])
    /\ Len(features.item_frequency) >= 4
    /\ Len(features.item_cooccurrence) >= 4

----------------------------------------------------------------------------
(* Properties of the recommender *)

\* what _recommend_items computed for the rows of the last predict
Computed ==
    IF predictions.outcome = "returned"
    THEN {predictions.rows[i].computed : i \in 1..Len(predictions.rows)}
    ELSE {}

\* 0.4 * co-occurrence + 0.3 * market-basket + 0.2 * category + 0.1 * popularity
WeightedSum(c, x) ==
    FAdd(FAdd(FMul(<<4, 10>>, Get(c.cooccurrence_recs, x, <<0, 1>>)),
              FMul(<<3, 10>>, Get(c.basket_recs, x, <<0, 1>>))),
         FAdd(FMul(<<2, 10>>, Get(c.category_recs, x, <<0, 1>>)),
              FMul(<<1, 10>>, Get(c.popularity_recs, x, <<0, 1>>))))

Score(c, x) == Get(c.recommendations, x, <<0, 1>>)

\* the combined scores are the weighted sums, and the result is at most 3
\* distinct candidates, best first, no left-out candidate scoring higher
BlendedAndRanked(c) ==
    /\ SeqToSet(Keys(c.recommendations)) =
          SeqToSet(Keys(c.cooccurrence_recs)) \cup SeqToSet(Keys(c.basket_recs))
            \cup SeqToSet(Keys(c.category_recs)) \cup SeqToSet(Keys(c.popularity_recs))
    /\ NoDup(Keys(c.recommendations))
    /\ \A x \in SeqToSet(Keys(c.recommendations)) : Score(c, x) = WeightedSum(c, x)
    /\ Len(c.recs) = Min2(3, Len(c.recommendations))
    /\ NoDup(c.recs)
    /\ SeqToSet(c.recs) \subseteq SeqToSet(Keys(c.recommendations))
    /\ \A i \in 1..(Len(c.recs) - 1) : FLeq(Score(c, c.recs[i + 1]), Score(c, c.recs[i]))
    /\ \A x \in SeqToSet(Keys(c.recommendations)) \ SeqToSet(c.recs) :
          \A i \in 1..Len(c.recs) : FLeq(Score(c, x), Score(c, c.recs[i]))

\* x is in the co-occurrence row of an item of the cart
CooccursWithCart(c, x) ==
    \E i \in 1..Len(c.order_items) :
        HasKey(Get(recommender.features.item_cooccurrence, c.order_items[i], <<>>), x)

Frequency(x) == Get(recommender.features.item_frequency, x, <<0, 1>>)

\* x is a co-occurrence candidate, y is as frequent as x, is not in the cart
\* and co-occurs with no item of the cart
Rivals(c, x, y) ==
    /\ HasKey(c.cooccurrence_recs, x)
    /\ y # x
    /\ y \notin SeqToSet(c.exclude_items)
    /\ ~CooccursWithCart(c, y)
    /\ Frequency(y) = Frequency(x)

C20_Exclusion ==
    /\ \A c \in Computed :
          LET excluded == SeqToSet(c.exclude_items)
          IN /\ SeqToSet(Keys(c.cooccurrence_recs)) \cap excluded = {}
             /\ SeqToSet(Keys(c.basket_recs)) \cap excluded = {}
             /\ SeqToSet(Keys(c.category_recs)) \cap excluded = {}
             /\ SeqToSet(Keys(c.popularity_recs)) \cap excluded = {}
             /\ SeqToSet(c.recs) \cap excluded = {}
    /\ predictions.outcome = "returned" =>
          \A i \in 1..Len(predictions.rows) :
              /\ predictions.rows[i].computed.exclude_items = data[i]
              /\ SeqToSet(predictions.rows[i].row) \cap SeqToSet(data[i]) = {}
              /\ Len(predictions.rows[i].row) = 3

\* an order of two items that co-occur with each other, have rules toward each
\* other and are the most frequent of the table, with recommendations returned
C20_Witness ==
    \E c \in Computed :
        /\ Len(c.order_items) >= 2
        /\ \A x \in SeqToSet(c.exclude_items) :
              /\ CooccursWithCart(c, x)
              /\ \E i \in 1..Len(c.order_items) :
                    HasKey(Get(recommender.features.market_basket, c.order_items[i], <<>>), x)
              /\ \A y \in Menu \ SeqToSet(c.exclude_items) :
                    FLess(Frequency(y), Frequency(x))
        /\ Len(c.recs) >= 2

\* position of the first keyword group, in table order, with a keyword that
\* occurs in the lower-cased name; 0 when no group has one
FirstGroup(name, table) ==
    LET hit == {g \in 1..Len(table) :
                  \E k \in table[g][2] : Contains(Lower(Spelling[name]), Spelling[k])}
    IN IF hit = {} THEN 0 ELSE CHOOSE g \in hit : \A h \in hit : g <= h

Taxonomy ==
    {"wings", "chicken", "fries", "sides", "dips_sauces", "drinks", "combos",
     "subs", "desserts", "other"}

KeywordTable(engineer) ==
    IF engineer = "v1" THEN category_keywords_v1 ELSE category_keywords_v2

CategoryIn(cats, name) == Get(cats, name, "none")

\* C21: every item of the table gets exactly one category, a category of the
\* taxonomy: that of the first keyword group, in the order of the keyword table,
\* with a keyword occurring in the lower-cased name, and 'other' when no group
\* matches (a name with a wings keyword and a chicken keyword is 'wings'); the
\* category is the same whatever the other rows and the iteration order
C21_Categorization ==
    features.created =>
        LET cats == features.item_categories
            table == KeywordTable(features.engineer)
        IN /\ SeqToSet(Keys(cats)) =
                  SeqToSet(Flatten(IF features.engineer = "v1"
                                   THEN SelectSeq(data, LAMBDA r : r # <<>>)
                                   ELSE data))
           /\ NoDup(Keys(cats))
           /\ \A i \in 1..Len(cats) :
                 LET g == FirstGroup(cats[i][1], table)
                 IN /\ cats[i][2] \in Taxonomy
                    /\ cats[i][2] = IF g = 0 THEN "other" ELSE table[g][1]
           /\ features.engineer = "v2" /\ HasKey(cats, "SPICY Chicken Sandwich")
                 => CategoryIn(cats, "SPICY Chicken Sandwich") = "wings"

\* names that match two keyword groups, an upper-case name and an unmatched
\* name have been categorized
C21_Witness ==
    /\ features.created
    /\ features.engineer = "v2"
    /\ CategoryIn(features.item_categories, "SPICY Chicken Sandwich") = "wings"
    /\ CategoryIn(features.item_categories, "Chicken Sub") = "chicken"
    /\ CategoryIn(features.item_categories, "Chocolate Cake") = "drinks"
    /\ CategoryIn(features.item_categories, "Napkins") = "other"

\* number of interactions of the measured call with the given action
Interactions(action) ==
    Cardinality({i \in 1..Len(measured.user_interactions) :
                   measured.user_interactions[i].action = action})

\* both arguments of the measured call were non-empty
MeasuredBatch ==
    /\ measured.done
    /\ measured.recommendations # <<>>
    /\ measured.user_interactions # <<>>

\* C22: every call of measure_success_metrics returns a report with the same
\* fixed set of keys, each value a proper number; when the recommendations or the
\* interactions are empty, as for ([], [], None), every key maps to 0.0
C22_ReportShape ==
    measured.done =>
        /\ DOMAIN measured.metrics = MetricKeys
        /\ \A k \in MetricKeys : measured.metrics[k][2] > 0
        /\ (measured.recommendations = <<>> \/ measured.user_interactions = <<>>)
              => \A k \in MetricKeys : measured.metrics[k] = <<0, 1>>

\* measure_success_metrics([], [], None) has returned
C22_Witness ==
    /\ measured.done
    /\ measured.recommendations = <<>>
    /\ measured.user_interactions = <<>>
    /\ measured.baseline_data = None
    /\ \A k \in MetricKeys : measured.metrics[k] = <<0, 1>>

\* C23: for non-empty recommendations R and interactions, the adoption rate is
\* the number of purchases over |R|, the click-through rate the number of clicks
\* over |R| and the add-to-cart rate the number of adds over |R|; 3 purchases
\* against 10 recommendations give 0.3
C23_MetricRatios ==
    MeasuredBatch =>
        LET R == Len(measured.recommendations)
        IN /\ measured.metrics["recommendation_adoption_rate"] =
                  Frac(Interactions("purchase"), R)
           /\ measured.metrics["click_through_rate"] = Frac(Interactions("click"), R)
           /\ measured.metrics["add_to_cart_rate"] =
                  Frac(Interactions("add_to_cart"), R)
           /\ (R = 10 /\ Interactions("purchase") = 3)
                 => measured.metrics["recommendation_adoption_rate"] = <<3, 10>>

\* three purchases were measured against ten recommendations
C23_Witness ==
    /\ MeasuredBatch
    /\ Len(measured.recommendations) = 10
    /\ Interactions("purchase") = 3
    /\ measured.metrics["recommendation_adoption_rate"] = <<3, 10>>

\* the measured batch is the non-empty list a generate_fresh_recommendations
\* call returned
MeasuredCallRecords ==
    /\ MeasuredBatch
    /\ call.returned
    /\ measured.recommendations = call.recommendations

\* C24: for a batch of records produced by generate_fresh_recommendations, the
\* category diversification is the number of distinct categories among the
\* records (carried in their metadata) divided by 10
C24_CategoryDiversification ==
    MeasuredCallRecords =>
        measured.metrics["category_diversification"] =
            Frac(Cardinality({ measured.recommendations[r].metadata.category :
                                 r \in 1..Len(measured.recommendations) }), 10)

\* C25: no ratio is computed with a zero denominator: the conversion rate is 0
\* when there are no clicks, the AOV lift is 0 when the supplied baseline is 0,
\* the premium upsell rate is 0 when there are no purchases, and a table without
\* ordered pairs gives a feature store without any co-occurrence entry
C25_ZeroDenominators ==
    /\ MeasuredBatch =>
          /\ \A k \in MetricKeys : measured.metrics[k][2] > 0
          /\ Interactions("click") = 0 => measured.metrics["conversion_rate"] = <<0, 1>>
          /\ measured.baseline_data = [baseline_aov |-> 0]
                => measured.metrics["average_order_value_lift"] = <<0, 1>>
          /\ Interactions("purchase") = 0
                => measured.metrics["premium_item_upsell_rate"] = <<0, 1>>
    /\ (features.created /\ features.counts.total_pairs = 0)
          => features.item_cooccurrence = <<>>

\* interactions without clicks and purchases were measured against a zero
\* baseline, and features were made from orders that hold no pair
C25_Witness ==
    /\ MeasuredBatch
    /\ Interactions("click") = 0
    /\ Interactions("purchase") = 0
    /\ measured.baseline_data = [baseline_aov |-> 0]
    /\ features.created
    /\ data # <<>>
    /\ Flatten(data) # <<>>
    /\ features.counts.total_pairs = 0

\* the four feature maps are empty
EmptyFeatures(f) ==
    /\ f.item_frequency = <<>>
    /\ f.item_cooccurrence = <<>>
    /\ f.market_basket = <<>>
    /\ f.item_categories = <<>>

\* the four candidate lists computed for a row are empty
AllGeneratorsEmpty(c) ==
    /\ c.cooccurrence_recs = <<>>
    /\ c.basket_recs = <<>>
    /\ c.category_recs = <<>>
    /\ c.popularity_recs = <<>>

\* the items of the default complementary categories, with half their frequency
DefaultCategoryItems(f) ==
    { <<x, FMul(Get(f.item_frequency, x, <<0, 1>>), <<1, 2>>)>> :
        x \in { y \in SeqToSet(Keys(f.item_categories)) :
                  Get(f.item_categories, y, "other") \in {"wings", "drinks", "sides"} } }

\* C26: an empty batch of orders gives empty item-frequency, co-occurrence,
\* market-basket and category maps; with empty features each of the four
\* generators returns an empty list; with an empty cart the co-occurrence and
\* the market-basket generator return an empty list, the category generator
\* returns the items of the default complementary categories wings, drinks and
\* sides, and the popularity generator the most frequent items (at most ten)
C26_EmptyInput ==
    /\ (features.created /\ Flatten(data) = <<>>) => EmptyFeatures(features)
    /\ predictions.outcome = "returned" =>
          \A i \in 1..Len(predictions.rows) :
             LET c == predictions.rows[i].computed
                 f == recommender.features
             IN /\ EmptyFeatures(f) => AllGeneratorsEmpty(c)
                /\ c.order_items = <<>> =>
                      /\ c.cooccurrence_recs = <<>>
                      /\ c.basket_recs = <<>>
                      /\ SeqToSet(c.category_recs) = DefaultCategoryItems(f)
                      /\ Len(c.category_recs) = Cardinality(DefaultCategoryItems(f))
                      /\ c.popularity_recs = Take(SortedDesc(f.item_frequency), 10)

\* an order without items was scored against features of a non-empty table, and
\* the category and the popularity generator returned candidates
C26_Witness ==
    /\ predictions.outcome = "returned"
    /\ ~EmptyFeatures(recommender.features)
    /\ \E i \in 1..Len(predictions.rows) :
          LET c == predictions.rows[i].computed
          IN /\ c.order_items = <<>>
             /\ c.cooccurrence_recs = <<>>
             /\ c.basket_recs = <<>>
             /\ c.category_recs # <<>>
             /\ c.popularity_recs # <<>>

\* C26 as stated: with empty features or an empty cart each of the four
\* generators returns an empty list
C26_AllEmptyOnEmptyCart ==
    predictions.outcome = "returned" =>
        \A i \in 1..Len(predictions.rows) :
           LET c == predictions.rows[i].computed
           IN (EmptyFeatures(recommender.features) \/ c.order_items = <<>>)
                 => AllGeneratorsEmpty(c)

\* the history mapping cut down to one customer
OwnHistory(h, customer_id) == [k \in DOMAIN h \cap {customer_id} |-> h[k]]

\* a history in which every item the helpers can offer was shown at time t
AllShown(t) ==
    LET s == BaseTable(<<"Wings">>) \o TrendingTable \o FallbackTable
    IN [i \in 1..Len(s) |-> <<s[i], t>>]

\* the mapping h with the history of customer B replaced
WithHistory(h, B, history) ==
    [k \in DOMAIN h \cup {B} |-> IF k = B THEN history ELSE h[k]]

\* what the call just made computes from the history mapping h, with the same
\* clock reading and the same trending draw
SameCallOn(h) ==
    Compute(h, call'.customer_id, call'.current_items, call'.customer_type,
            call'.platform, call'.max_recs, call'.t, call'.trending_sample)

\* C27: a call for customer A leaves the history of every other customer B as
\* it was (no entry added, removed or pruned, no key created for B), and what
\* it returns for A is what it returns when the other customers have no
\* history, an empty one, or one in which every item was shown just now
C27_Isolation ==
    [][ LET A == call'.customer_id
            h == recommendation_history
        IN /\ \A B \in Customers \ {A} :
                 /\ (B \in DOMAIN recommendation_history') = (B \in DOMAIN h)
                 /\ B \in DOMAIN h => recommendation_history'[B] = h[B]
           /\ [call' EXCEPT !.streak = 0] = SameCallOn(OwnHistory(h, A))
           /\ \A B \in Customers \ {A} :
                 \A other \in {<<>>, AllShown(call'.t)} :
                    [call' EXCEPT !.streak = 0] = SameCallOn(WithHistory(h, B, other))
      ]_vars

\* a call returned, to a customer without history, an item that another
\* customer was shown within the freshness window
C27_Witness ==
    /\ call.returned
    /\ call.prior = <<>>
    /\ \E B \in DOMAIN recommendation_history \ {call.customer_id} :
          /\ \E i \in 1..Len(recommendation_history[B]) :
                /\ recommendation_history[B][i][1] \in NameSet
                /\ IsRecent(call.t, recommendation_history[B][i][2])

\* the diversity pool holds no item twice, and the trending and the seasonal
\* helper returned nothing of what they were told to exclude
HelpersHonourExcludes ==
    /\ NoDup(call.category_recommendations)
    /\ SeqToSet(call.trending_items)
          \cap SeqToSet(call.current_items \o call.category_recommendations) = {}
    /\ SeqToSet(call.seasonal_items)
          \cap SeqToSet(call.current_items \o call.category_recommendations
                          \o call.trending_items) = {}

\* the items of the cart that one of the helpers' tables holds
OfferedCartItems ==
    SeqToSet(call.current_items)
       \cap SeqToSet(BaseTable(call.current_items) \o TrendingTable
                       \o SeasonalTable[MonthOf(call.t)] \o FallbackTable)

PaddedRow(r) ==
    /\ Len(r.row) = 3
    /\ Len(r.computed.recs) <= 3
    /\ \A i \in 1..3 :
          r.row[i] = IF i <= Len(r.computed.recs) THEN r.computed.recs[i]
                     ELSE "popular_item_fallback"

\* C29: the engine starts untrained; a predict on an untrained engine raises
\* and produces no rows; a trained engine stays trained; and a predict that
\* returns was made by a trained engine and holds one row per test order, each
\* with exactly three values, the placeholder 'popular_item_fallback' filling
\* the places for which there is no candidate
C29_TrainingGate ==
    /\ ~recommender.trained
    /\ [][recommender.trained => recommender'.trained]_vars
    /\ [][(~recommender.trained /\ predictions' # predictions)
            => (predictions' = [outcome |-> "raised"] /\ ~recommender'.trained)]_vars
    /\ [][(recommender.trained /\ predictions' # predictions)
            => predictions'.outcome = "returned"]_vars
    /\ [](predictions.outcome = "returned" =>
            /\ recommender.trained
            /\ Len(predictions.rows) = Len(data)
            /\ \A i \in 1..Len(predictions.rows) : PaddedRow(predictions.rows[i]))

\* a trained engine returned rows for several orders, one of them padded with
\* the placeholder and one with three candidates
C29_Witness ==
    /\ recommender.trained
    /\ predictions.outcome = "returned"
    /\ Len(predictions.rows) >= 2
    /\ \E i \in 1..Len(predictions.rows) :
          /\ Len(predictions.rows[i].computed.recs) \in 1..2
          /\ predictions.rows[i].row[3] = "popular_item_fallback"
    /\ \E i \in 1..Len(predictions.rows) :
          "popular_item_fallback" \notin SeqToSet(predictions.rows[i].row)

\* the metric was read
Read(name) == name \in DOMAIN health_status.current_metrics

\* the reading of a metric that was read
Reading(name) == health_status.current_metrics[name]

\* some rollback trigger is breached in the direction its configuration
\* states: complaints above 5%, errors above 2%, order time up by more than
\* 60 s, AOV impact below -3%, satisfaction below 3.0
StatedBreach ==
    \/ Read("complaint_rate") /\ FLess(<<1, 20>>, Reading("complaint_rate"))
    \/ Read("system_error_rate") /\ FLess(<<1, 50>>, Reading("system_error_rate"))
    \/ Read("order_time_increase") /\ FLess(<<60, 1>>, Reading("order_time_increase"))
    \/ Read("negative_aov_impact") /\ FLess(Reading("negative_aov_impact"), <<-3, 100>>)
    \/ Read("customer_satisfaction") /\ FLess(Reading("customer_satisfaction"), <<3, 1>>)

\* C30: with the pilot strategy designed, monitor_pilot_health reports
\* should_rollback and the status 'critical' exactly when some rollback trigger
\* is breached in the direction its configuration states; a satisfaction above
\* 3.0, nothing else being breached, triggers no rollback; and the
\* success-criteria warnings leave a 'critical' status as it is
C30_PilotRollback ==
    (health_status.monitored /\ health_status.designed) =>
        /\ health_status.status.should_rollback = StatedBreach
        /\ (health_status.status.overall_status = "critical") = StatedBreach
        /\ health_status.status.status_after_triggers = "critical"
              => health_status.status.overall_status = "critical"

====
